---- MODULE Spec2Model ----
(***************************************************************************)
(* Model of framework/wazuh/rbac/orm.py: the RBAC relationship store       *)
(* (users, roles, policies and the two association tables) and the five    *)
(* managers that operate on it through SQLAlchemy sessions over SQLite.    *)
(*                                                                         *)
(* Storage facts the model rests on (all read off orm.py):                 *)
(*  - the engine is created with a plain sqlite:/// URL and no PRAGMA is   *)
(*    ever issued, so SQLite does not enforce the ForeignKey(...,          *)
(*    ondelete='CASCADE') declarations: only UNIQUE constraints and        *)
(*    primary keys are enforced by the store;                              *)
(*  - roles.id / policies.id are INTEGER PRIMARY KEY columns without       *)
(*    AUTOINCREMENT, so the store assigns max(id)+1 to a new row;          *)
(*  - roles and policies are only ever deleted with Query.delete(), a bulk *)
(*    DELETE that runs no ORM relationship cascade;                        *)
(*  - `raise IntegrityError` instantiates sqlalchemy.exc.IntegrityError    *)
(*    with no arguments; its constructor requires (statement, params,      *)
(*    orig), so the statement raises TypeError, which the surrounding      *)
(*    `except IntegrityError` does not catch;                              *)
(*  - SecurityError is a plain Enum: every member is truthy, also          *)
(*    ALREADY_EXIST whose value is False.                                  *)
(***************************************************************************)
EXTENDS Integers, Sequences, FiniteSets, Bags, TLC

(***************************************************************************)
(* Bounds of the model.                                                    *)
(***************************************************************************)
\* role ids range over 1..MaxRoleId (ids 1 and 2 are the seeded roles)
MaxRoleId == 3
\* policy ids range over 1..MaxPolicyId (id 1 is the seeded policy)
MaxPolicyId == 2
\* role ids range over 1..MaxTxnRoleId where calls are taken commit by commit
MaxTxnRoleId == 4

RoleIds == 1..MaxRoleId
PolicyIds == 1..MaxPolicyId

(***************************************************************************)
(* Reserved identities, orm.py:28-33.                                      *)
(***************************************************************************)
admin_usernames == {"wazuh", "wazuh-app"}
admin_role_ids == {1, 2}
admin_policy_ids == {1}

(***************************************************************************)
(* Python values.  Every value is a record tagged with its type; v is      *)
(* always a sequence: the chunks of a str, the items of a list, the        *)
(* <<key, value>> pairs of a dict in insertion order.                      *)
(***************************************************************************)
PyNone == [t |-> "none", v |-> <<>>]
\* an int carries its decimal digits as one chunk
PyInt(n) == [t |-> "int", v |-> <<n>>]
PyStr(s) == [t |-> "str", v |-> s]
PyList(items) == [t |-> "list", v |-> items]
PyDict(pairs) == [t |-> "dict", v |-> pairs]

Keys(d) == {d.v[i][1] : i \in 1..Len(d.v)}
Get(d, k) == LET i == CHOOSE j \in 1..Len(d.v) : d.v[j][1] = k IN d.v[i][2]

(***************************************************************************)
(* json.dumps / json.loads (orm.py:183, 233, 428, 524, 612, 713).  A JSON  *)
(* text is a flat sequence of lexemes.  json.dumps writes the keys of a    *)
(* dict in insertion order, so equal dicts built in a different key order  *)
(* give different texts.                                                   *)
(***************************************************************************)
RECURSIVE json_dumps(_)
RECURSIVE DumpItems(_, _)
RECURSIVE DumpPairs(_, _)
json_dumps(x) ==
    CASE x.t = "none" -> <<"null">>
      [] x.t = "int" -> x.v
      [] x.t = "str" -> <<"\"">> \o x.v \o <<"\"">>
      [] x.t = "list" -> <<"[">> \o DumpItems(x.v, 1) \o <<"]">>
      [] x.t = "dict" -> <<"{">> \o DumpPairs(x.v, 1) \o <<"}">>
DumpItems(items, i) ==
    IF i > Len(items) THEN <<>>
    ELSE (IF i > 1 THEN <<",">> ELSE <<>>) \o json_dumps(items[i]) \o DumpItems(items, i + 1)
DumpPairs(pairs, i) ==
    IF i > Len(pairs) THEN <<>>
    ELSE (IF i > 1 THEN <<",">> ELSE <<>>)
         \o <<"\"", pairs[i][1], "\"", ":">> \o json_dumps(pairs[i][2])
         \o DumpPairs(pairs, i + 1)

\* the index of the first closing quote of tx at or after i
RECURSIVE QuoteEnd(_, _)
QuoteEnd(tx, i) == IF tx[i] = "\"" THEN i ELSE QuoteEnd(tx, i + 1)

\* the value that starts at lexeme i of tx, and the index after it
RECURSIVE ParseValue(_, _)
RECURSIVE ParseItems(_, _, _)
RECURSIVE ParsePairs(_, _, _)
ParseValue(tx, i) ==
    CASE tx[i] = "null" -> [val |-> PyNone, next |-> i + 1]
      [] tx[i] = "\"" ->
            LET j == QuoteEnd(tx, i + 1)
            IN [val |-> PyStr(SubSeq(tx, i + 1, j - 1)), next |-> j + 1]
      [] tx[i] = "[" -> ParseItems(tx, i + 1, <<>>)
      [] tx[i] = "{" -> ParsePairs(tx, i + 1, <<>>)
      [] OTHER -> [val |-> PyInt(tx[i]), next |-> i + 1]
ParseItems(tx, i, acc) ==
    IF tx[i] = "]" THEN [val |-> PyList(acc), next |-> i + 1]
    ELSE IF tx[i] = "," THEN ParseItems(tx, i + 1, acc)
    ELSE LET r == ParseValue(tx, i) IN ParseItems(tx, r.next, Append(acc, r.val))
ParsePairs(tx, i, acc) ==
    IF tx[i] = "}" THEN [val |-> PyDict(acc), next |-> i + 1]
    ELSE IF tx[i] = "," THEN ParsePairs(tx, i + 1, acc)
    ELSE LET r == ParseValue(tx, i + 4)   \* " key " : value
         IN ParsePairs(tx, r.next, Append(acc, <<tx[i + 1], r.val>>))

json_loads(tx) == ParseValue(tx, 1).val

\* orm.py:36-45
json_validator(data) == data.t = "dict"

(***************************************************************************)
(* The regular expression of add_policy, orm.py:605, as re.match applies   *)
(* it: ^[a-z*]+:[a-z0-9*]+(:[a-z0-9*]+)*$ .  A str is a sequence of        *)
(* one-character strings.  In Python `$` matches at the end of the string  *)
(* and also just before a newline that ends the string.                    *)
(***************************************************************************)
Lower == {"a", "b"}
Digit == {"0"}
FirstClass == Lower \cup {"*"}
RestClass == Lower \cup Digit \cup {"*"}

\* the index of the first ":" of w, 0 when there is none
FirstColon(w) ==
    IF \E i \in 1..Len(w) : w[i] = ":"
    THEN CHOOSE i \in 1..Len(w) : w[i] = ":" /\ \A j \in 1..(i - 1) : w[j] # ":"
    ELSE 0

\* [a-z0-9*]+(:[a-z0-9*]+)* consumed from position i to the end of w
RECURSIVE RestMatch(_, _, _)
RestMatch(w, i, seen) ==
    IF i > Len(w) THEN seen > 0
    ELSE IF w[i] \in RestClass THEN RestMatch(w, i + 1, seen + 1)
    ELSE IF w[i] = ":" THEN seen > 0 /\ i < Len(w) /\ RestMatch(w, i + 1, 0)
    ELSE FALSE

FullMatch(w) ==
    LET c == FirstColon(w) IN
    /\ c > 1
    /\ \A j \in 1..(c - 1) : w[j] \in FirstClass
    /\ RestMatch(w, c + 1, 0)

re_match(w) ==
    IF Len(w) > 0 /\ w[Len(w)] = "\n"
    THEN FullMatch(SubSeq(w, 1, Len(w) - 1))
    ELSE FullMatch(w)

(***************************************************************************)
(* Return values.  kind is True, False, None, a SecurityError member       *)
(* (orm.py:49-61), "list" (ids carries the ids a delete_all_* returns), or *)
(* the name of the exception that leaves the manager.                      *)
(***************************************************************************)
Ret(k) == [kind |-> k, ids |-> <<>>]
RetList(ids) == [kind |-> "list", ids |-> ids]

SecurityError ==
    {"ALREADY_EXIST", "INVALID", "ROLE_NOT_EXIST", "POLICY_NOT_EXIST",
     "ADMIN_RESOURCES", "USER_NOT_EXIST"}
Exceptions == {"TypeError", "AttributeError", "StaleDataError"}

Raised(r) == r.kind \in Exceptions

\* bool(x) as `and` applies it (orm.py:924, 1134): a member of a plain Enum
\* is truthy whatever its value, True is truthy, False is not.
Truthy(r) == r.kind = "True" \/ r.kind \in SecurityError

\* the outcome of a call: the committed database and what the caller gets
Out(d, k) == [db |-> d, ret |-> Ret(k)]

(***************************************************************************)
(* The store: five tables (orm.py:64-244).  users, roles and policies are  *)
(* functions from the primary key of each stored row to its columns;       *)
(* user_roles and roles_policies are bags of <<a, b>> rows (the surrogate  *)
(* id and created_at are left out).                                        *)
(***************************************************************************)
EmptyDb ==
    [users |-> <<>>, roles |-> <<>>, policies |-> <<>>,
     user_roles |-> EmptyBag, roles_policies |-> EmptyBag]

Max(S) == CHOOSE x \in S : \A y \in S : y <= x

\* INTEGER PRIMARY KEY without AUTOINCREMENT (orm.py:160, 212): SQLite gives
\* a new row the largest id in the table plus one
NextId(rows) == IF DOMAIN rows = {} THEN 1 ELSE Max(DOMAIN rows) + 1

Without(rows, key) == [k \in DOMAIN rows \ {key} |-> rows[k]]

\* the ids of a table in ascending order, as an unordered SELECT returns them
RECURSIVE Ascending(_)
Ascending(S) ==
    IF S = {} THEN <<>>
    ELSE LET m == CHOOSE x \in S : \A y \in S : x <= y
         IN <<m>> \o Ascending(S \ {m})

\* the rows of a SELECT without ORDER BY over a table with no integer key:
\* some fixed order
RECURSIVE Listed(_)
Listed(S) ==
    IF S = {} THEN <<>>
    ELSE LET x == CHOOSE y \in S : TRUE IN <<x>> \o Listed(S \ {x})

\* an association table without its UniqueConstraint
AssocUnique_unchecked(table, row) == FALSE

\* UniqueConstraint('user_id', 'role_id') / ('role_id', 'policy_id'),
\* orm.py:80, 100: TRUE when inserting row raises IntegrityError
AssocUnique(table, row) == BagIn(row, table)

\* InsertAssoc that first drops the rows sharing the first column of row
InsertAssoc_replacing(table, row) ==
    [r \in {x \in DOMAIN table : x[1] # row[1]} |-> table[r]] (+) SetToBag({row})

\* the INSERT that the commit issues for the appended relation
InsertAssoc(table, row) == table (+) SetToBag({row})

\* a DELETE that removes nothing
DeleteAssoc_nothing(table, row) == table

\* DELETE ... WHERE a = ? AND b = ?
DeleteAssoc(table, row) == [r \in DOMAIN table \ {row} |-> table[r]]

\* a DELETE ... WHERE that matches no row
DeleteAssocWhere_nothing(table, col, key) == table

\* DELETE of every row whose column col (1 or 2) equals key
DeleteAssocWhere(table, col, key) ==
    [r \in {x \in DOMAIN table : x[col] # key} |-> table[r]]

\* a roles table without its UniqueConstraints
RoleUnique_unchecked(d, self, name, rule) == FALSE

\* UniqueConstraint('name'), UniqueConstraint('rule'), orm.py:164-165: TRUE
\* when a row `self` holding (name, rule) collides with another row
RoleUnique(d, self, name, rule) ==
    \E id \in DOMAIN d.roles \ {self} :
        d.roles[id].name = name \/ d.roles[id].rule = rule

\* UniqueConstraint('name'), UniqueConstraint('policy'), orm.py:216-217
PolicyUnique(d, self, name, policy) ==
    \E id \in DOMAIN d.policies \ {self} :
        d.policies[id].name = name \/ d.policies[id].policy = policy

\* User.roles / Roles.users / Roles.policies / Policies.roles (orm.py:114,
\* 168-171, 220): the join of the association table with the peer table
RolesOfUser(d, u) == {r \in DOMAIN d.roles : BagIn(<<u, r>>, d.user_roles)}
UsersOfRole(d, r) == {u \in DOMAIN d.users : BagIn(<<u, r>>, d.user_roles)}
PoliciesOfRole(d, r) == {p \in DOMAIN d.policies : BagIn(<<r, p>>, d.roles_policies)}
RolesOfPolicy(d, p) == {r \in DOMAIN d.roles : BagIn(<<r, p>>, d.roles_policies)}

\* werkzeug's generate_password_hash / check_password_hash: an opaque value
\* that verifies exactly the password it was made from
generate_password_hash(p) == <<"hash", p>>
check_password_hash(h, p) == h = <<"hash", p>>

\* an optional str argument: None or a str
None == [given |-> FALSE, s |-> ""]
Some(s) == [given |-> TRUE, s |-> s]

(***************************************************************************)
(* AuthenticationManager, orm.py:247-370.  Every manager operation is an   *)
(* operator from the committed database and the arguments to the committed *)
(* database after the call and the value returned (or exception raised).   *)
(***************************************************************************)
\* add_user as an INSERT OR REPLACE
add_user_or_replace(d, username, password, auth_context) ==
    Out([d EXCEPT !.users =
            (username :> [password |-> generate_password_hash(password),
                          auth_context |-> auth_context]) @@ @], "True")

\* orm.py:252-267
add_user(d, username, password, auth_context) ==
    IF username \in DOMAIN d.users
    THEN Out(d, "False")                      \* IntegrityError, rollback
    ELSE Out([d EXCEPT !.users = @ @@ (username :>
                  [password |-> generate_password_hash(password),
                   auth_context |-> auth_context])], "True")

\* update_user without the assignment of line 279
update_user_unsaved(d, username, password) ==
    IF username \in DOMAIN d.users THEN Out(d, "True") ELSE Out(d, "False")

\* orm.py:269-286
update_user(d, username, password) ==
    IF username \in DOMAIN d.users
    THEN Out([d EXCEPT !.users[username].password =
                  generate_password_hash(password)], "True")
    ELSE Out(d, "False")

\* delete_user without the test of line 294
delete_user_any_name(d, username) ==
    IF username \notin DOMAIN d.users
    THEN Out(d, "False")
    ELSE Out([d EXCEPT !.user_roles = DeleteAssocWhere(@, 1, username),
                       !.users = Without(@, username)], "True")

\* orm.py:288-307.  The query of line 302 autoflushes the deletions of the
\* user's user_roles rows, so the collections that session.delete(user)
\* loads for its relationship cascades are empty: only the association rows
\* and the user row go.
delete_user(d, username) ==
    IF username \in admin_usernames THEN Out(d, "ADMIN_RESOURCES")
    ELSE IF username \notin DOMAIN d.users
    THEN Out(d, "False")                      \* UnmappedInstanceError
    ELSE Out([d EXCEPT !.user_roles = DeleteAssocWhere(@, 1, username),
                       !.users = Without(@, username)], "True")

\* orm.py:309-317
check_user(d, username, password) ==
    IF username \in DOMAIN d.users
       /\ check_password_hash(d.users[username].password, password)
    THEN Out(d, "True")
    ELSE Out(d, "False")

(***************************************************************************)
(* RolesManager, orm.py:373-538.                                           *)
(***************************************************************************)
\* orm.py:379-391: the id of the role called name, 0 for ROLE_NOT_EXIST
get_role(d, name) ==
    IF \E id \in DOMAIN d.roles : d.roles[id].name = name
    THEN CHOOSE id \in DOMAIN d.roles : d.roles[id].name = name
    ELSE 0

\* add_role on a roles table without its UniqueConstraints
add_role_no_constraint(d, name, rule) ==
    IF rule.t # "none" /\ ~json_validator(rule) THEN Out(d, "INVALID")
    ELSE Out([d EXCEPT !.roles = @ @@ (NextId(d.roles) :>
                 [name |-> name, rule |-> json_dumps(rule)])], "True")

\* orm.py:418-433
add_role(d, name, rule) ==
    IF rule.t # "none" /\ ~json_validator(rule) THEN Out(d, "INVALID")
    ELSE LET id == NextId(d.roles)
             text == json_dumps(rule)
         IN IF RoleUnique(d, id, name, text)
            THEN Out(d, "ALREADY_EXIST")      \* IntegrityError, rollback
            ELSE Out([d EXCEPT !.roles = @ @@ (id :> [name |-> name, rule |-> text])],
                     "True")

\* a deletion of role role_id that filters roles_policies on policy_id
DeleteRoleRows_by_policy_id(d, role_id) ==
    [d EXCEPT !.roles_policies = DeleteAssocWhere(@, 2, role_id),
              !.roles = Without(@, role_id)]

\* the writes of one deletion of role role_id: its roles_policies rows, then
\* the bulk DELETE of the roles row (orm.py:443-452, 468-473, 491-495).
\* user_roles is not touched.
DeleteRoleRows(d, role_id) ==
    [d EXCEPT !.roles_policies = DeleteAssocWhere(@, 1, role_id),
              !.roles = Without(@, role_id)]

\* orm.py:435-458
delete_role(d, role_id) ==
    IF role_id \in admin_role_ids THEN Out(d, "ADMIN_RESOURCES")
    ELSE IF role_id \notin DOMAIN d.roles
    THEN Out(d, "TypeError")                  \* raise IntegrityError, line 450
    ELSE Out(DeleteRoleRows(d, role_id), "True")

\* orm.py:460-479
delete_role_by_name(d, role_name) ==
    LET id == get_role(d, role_name) IN
    IF id = 0 THEN Out(d, "AttributeError")   \* SecurityError has no .id
    ELSE IF id \in admin_role_ids THEN Out(d, "False")
    ELSE Out(DeleteRoleRows(d, id), "True")

\* orm.py:489-496: one turn of the loop of delete_all_roles, with its commit
DeleteAllRolesTurn(d, id) ==
    IF id \in admin_role_ids THEN d ELSE DeleteRoleRows(d, id)

RECURSIVE DeleteAllRolesLoop(_, _)
DeleteAllRolesLoop(d, todo) ==
    IF todo = <<>> THEN d
    ELSE DeleteAllRolesLoop(DeleteAllRolesTurn(d, Head(todo)), Tail(todo))

\* orm.py:481-500
delete_all_roles(d) ==
    LET roles == Ascending(DOMAIN d.roles)
    IN [db |-> DeleteAllRolesLoop(d, roles),
        ret |-> RetList(SelectSeq(roles, LAMBDA id : id \notin admin_role_ids))]

\* update_role without the test of line 513
update_role_any_id(d, role_id, name, rule) ==
    IF role_id \notin DOMAIN d.roles THEN Out(d, "ROLE_NOT_EXIST")
    ELSE IF rule.t # "none" /\ ~json_validator(rule) THEN Out(d, "INVALID")
    ELSE IF name.given /\ get_role(d, name.s) # 0 THEN Out(d, "ALREADY_EXIST")
    ELSE LET old == d.roles[role_id]
             new == [name |-> IF name.given THEN name.s ELSE old.name,
                     rule |-> IF rule.t # "none" THEN json_dumps(rule) ELSE old.rule]
         IN IF RoleUnique(d, role_id, new.name, new.rule)
            THEN Out(d, "ROLE_NOT_EXIST")
            ELSE Out([d EXCEPT !.roles[role_id] = new], "True")

\* orm.py:502-531
update_role(d, role_id, name, rule) ==
    IF role_id \notin DOMAIN d.roles THEN Out(d, "ROLE_NOT_EXIST")
    ELSE IF role_id \in admin_role_ids THEN Out(d, "ADMIN_RESOURCES")
    ELSE IF rule.t # "none" /\ ~json_validator(rule) THEN Out(d, "INVALID")
    ELSE IF name.given /\ get_role(d, name.s) # 0 THEN Out(d, "ALREADY_EXIST")
    ELSE LET old == d.roles[role_id]
             new == [name |-> IF name.given THEN name.s ELSE old.name,
                     rule |-> IF rule.t # "none" THEN json_dumps(rule) ELSE old.rule]
         IN IF RoleUnique(d, role_id, new.name, new.rule)
            THEN Out(d, "ROLE_NOT_EXIST")     \* IntegrityError, rollback
            ELSE Out([d EXCEPT !.roles[role_id] = new], "True")

(***************************************************************************)
(* PoliciesManager, orm.py:541-727.                                        *)
(***************************************************************************)
\* orm.py:547-559: the id of the policy called name, 0 for POLICY_NOT_EXIST
get_policy(d, name) ==
    IF \E id \in DOMAIN d.policies : d.policies[id].name = name
    THEN CHOOSE id \in DOMAIN d.policies : d.policies[id].name = name
    ELSE 0

\* orm.py:606-611: the loop over the items of actions or resources: "ok",
\* "INVALID" at the first str the regex rejects, "TypeError" at the first
\* item re.match cannot take
RECURSIVE ScanTokens(_, _)
ScanTokens(items, i) ==
    IF i > Len(items) THEN "ok"
    ELSE IF items[i].t # "str" THEN "TypeError"
    ELSE IF ~re_match(items[i].v) THEN "INVALID"
    ELSE ScanTokens(items, i + 1)

\* orm.py:586-623
add_policy(d, name, policy) ==
    IF policy.t # "none" /\ ~json_validator(policy) THEN Out(d, "ALREADY_EXIST")
    ELSE IF policy.t = "none" THEN Out(d, "AttributeError")   \* None.keys()
    ELSE IF Cardinality(Keys(policy)) # 3 THEN Out(d, "INVALID")
    ELSE IF ~({"actions", "resources"} \subseteq Keys(policy)) THEN Out(d, "INVALID")
    ELSE IF "effect" \notin Keys(policy) THEN Out(d, "INVALID")
    ELSE IF ~(/\ Get(policy, "actions").t = "list"
              /\ Get(policy, "resources").t = "list"
              /\ Get(policy, "effect").t = "str") THEN Out(d, "INVALID")
    ELSE LET a == ScanTokens(Get(policy, "actions").v, 1)
             r == ScanTokens(Get(policy, "resources").v, 1)
             id == NextId(d.policies)
             text == json_dumps(policy)
         IN IF a # "ok" THEN Out(d, a)
            ELSE IF r # "ok" THEN Out(d, r)
            ELSE IF PolicyUnique(d, id, name, text)
            THEN Out(d, "ALREADY_EXIST")      \* IntegrityError, rollback
            ELSE Out([d EXCEPT !.policies = @ @@
                         (id :> [name |-> name, policy |-> text])], "True")

\* the writes of one deletion of policy policy_id: its roles_policies rows,
\* then the bulk DELETE of the policies row (orm.py:633-640, 657-663, 681-685)
DeletePolicyRows(d, policy_id) ==
    [d EXCEPT !.roles_policies = DeleteAssocWhere(@, 2, policy_id),
              !.policies = Without(@, policy_id)]

\* delete_policy without the test of line 632
delete_policy_any_id(d, policy_id) ==
    IF policy_id \notin DOMAIN d.policies
    THEN Out(d, "TypeError")
    ELSE Out(DeletePolicyRows(d, policy_id), "True")

\* orm.py:625-646
delete_policy(d, policy_id) ==
    IF policy_id \in admin_policy_ids THEN Out(d, "ADMIN_RESOURCES")
    ELSE IF policy_id \notin DOMAIN d.policies
    THEN Out(d, "TypeError")                  \* raise IntegrityError, line 639
    ELSE Out(DeletePolicyRows(d, policy_id), "True")

\* delete_policy_by_name without the second test of line 655
delete_policy_by_name_any_name(d, policy_name) ==
    LET id == get_policy(d, policy_name) IN
    IF id = 0 THEN Out(d, "AttributeError")
    ELSE Out(DeletePolicyRows(d, id), "True")

\* orm.py:648-669
delete_policy_by_name(d, policy_name) ==
    LET id == get_policy(d, policy_name) IN
    IF id = 0 THEN Out(d, "AttributeError")   \* SecurityError has no .id
    ELSE IF id \in admin_policy_ids THEN Out(d, "False")
    ELSE Out(DeletePolicyRows(d, id), "True")

\* orm.py:679-686: one turn of the loop of delete_all_policies, with its commit
DeleteAllPoliciesTurn(d, id) ==
    IF id \in admin_policy_ids THEN d ELSE DeletePolicyRows(d, id)

RECURSIVE DeleteAllPoliciesLoop(_, _)
DeleteAllPoliciesLoop(d, todo) ==
    IF todo = <<>> THEN d
    ELSE DeleteAllPoliciesLoop(DeleteAllPoliciesTurn(d, Head(todo)), Tail(todo))

\* orm.py:671-690
delete_all_policies(d) ==
    LET policies == Ascending(DOMAIN d.policies)
    IN [db |-> DeleteAllPoliciesLoop(d, policies),
        ret |-> RetList(SelectSeq(policies, LAMBDA id : id \notin admin_policy_ids))]

\* update_policy assigning the body before the query of line 708
update_policy_body_first(d, policy_id, name, policy) ==
    IF policy_id \notin DOMAIN d.policies THEN Out(d, "POLICY_NOT_EXIST")
    ELSE IF policy_id \in admin_policy_ids THEN Out(d, "ADMIN_RESOURCES")
    ELSE IF policy.t # "none" /\ ~json_validator(policy) THEN Out(d, "INVALID")
    ELSE LET old == d.policies[policy_id]
             body == IF /\ policy.t # "none"
                        /\ {"actions", "resources", "effect"} \subseteq Keys(policy)
                     THEN json_dumps(policy) ELSE old.policy
         IN IF name.given /\ get_policy(d, name.s) # 0
            THEN Out([d EXCEPT !.policies[policy_id].policy = body], "ALREADY_EXIST")
            ELSE IF PolicyUnique(d, policy_id, IF name.given THEN name.s ELSE old.name, body)
            THEN Out(d, "POLICY_NOT_EXIST")
            ELSE Out([d EXCEPT !.policies[policy_id] =
                         [name |-> IF name.given THEN name.s ELSE old.name,
                          policy |-> body]], "True")

\* orm.py:692-720
update_policy(d, policy_id, name, policy) ==
    IF policy_id \notin DOMAIN d.policies THEN Out(d, "POLICY_NOT_EXIST")
    ELSE IF policy_id \in admin_policy_ids THEN Out(d, "ADMIN_RESOURCES")
    ELSE IF policy.t # "none" /\ ~json_validator(policy) THEN Out(d, "INVALID")
    ELSE IF name.given /\ get_policy(d, name.s) # 0 THEN Out(d, "ALREADY_EXIST")
    ELSE LET old == d.policies[policy_id]
             new == [name |-> IF name.given THEN name.s ELSE old.name,
                     policy |-> IF /\ policy.t # "none"
                                   /\ {"actions", "resources", "effect"} \subseteq Keys(policy)
                                THEN json_dumps(policy) ELSE old.policy]
         IN IF PolicyUnique(d, policy_id, new.name, new.policy)
            THEN Out(d, "POLICY_NOT_EXIST")   \* IntegrityError, rollback
            ELSE Out([d EXCEPT !.policies[policy_id] = new], "True")

(***************************************************************************)
(* UserRolesManager, orm.py:730-937.                                       *)
(***************************************************************************)
\* orm.py:736-748 (reserved for internal use: the seeding)
add_role_to_user_admin(d, username, role_id) ==
    IF username \notin DOMAIN d.users
    THEN Out(d, IF role_id \in DOMAIN d.roles THEN "AttributeError" ELSE "TypeError")
    ELSE IF role_id \notin DOMAIN d.roles THEN Out(d, "TypeError")
    ELSE IF AssocUnique(d.user_roles, <<username, role_id>>)
    THEN Out(d, "False")                      \* IntegrityError, rollback
    ELSE Out([d EXCEPT !.user_roles = InsertAssoc(@, <<username, role_id>>)], "True")

\* add_role_to_user with the test of line 759 made after the lookups of
\* lines 760-765 instead of before them
add_role_to_user_lookups_first(d, username, role_id) ==
    IF username \notin DOMAIN d.users THEN Out(d, "USER_NOT_EXIST")
    ELSE IF role_id \notin DOMAIN d.roles THEN Out(d, "ROLE_NOT_EXIST")
    ELSE IF username \in admin_usernames THEN Out(d, "ADMIN_RESOURCES")
    ELSE IF BagIn(<<username, role_id>>, d.user_roles) THEN Out(d, "ALREADY_EXIST")
    ELSE Out([d EXCEPT !.user_roles = InsertAssoc(@, <<username, role_id>>)], "True")

\* orm.py:750-775
add_role_to_user(d, username, role_id) ==
    IF username \in admin_usernames THEN Out(d, "ADMIN_RESOURCES")
    ELSE IF username \notin DOMAIN d.users THEN Out(d, "USER_NOT_EXIST")
    ELSE IF role_id \notin DOMAIN d.roles THEN Out(d, "ROLE_NOT_EXIST")
    ELSE IF BagIn(<<username, role_id>>, d.user_roles) THEN Out(d, "ALREADY_EXIST")
    ELSE IF AssocUnique(d.user_roles, <<username, role_id>>)
    THEN Out(d, "INVALID")                    \* IntegrityError, rollback
    ELSE Out([d EXCEPT !.user_roles = InsertAssoc(@, <<username, role_id>>)], "True")

\* orm.py:777-784
add_user_to_role(d, username, role_id) == add_role_to_user(d, username, role_id)

\* orm.py:814-834
exist_user_role(d, username, role_id) ==
    IF username \notin DOMAIN d.users THEN Out(d, "USER_NOT_EXIST")
    ELSE IF role_id \notin DOMAIN d.roles THEN Out(d, "ROLE_NOT_EXIST")
    ELSE IF role_id \in RolesOfUser(d, username) THEN Out(d, "True")
    ELSE Out(d, "TypeError")                  \* raise IntegrityError, line 831

\* orm.py:786-798.  user is None when no row matches, and None.roles raises
\* AttributeError, which the handler of IntegrityError does not catch.  The
\* rows of the join come in the order the store yields them.
get_all_roles_from_user(d, username) ==
    IF username \notin DOMAIN d.users THEN Out(d, "AttributeError")
    ELSE [db |-> d, ret |-> RetList(Ascending(RolesOfUser(d, username)))]

\* orm.py:800-812
get_all_users_from_role(d, role_id) ==
    IF role_id \notin DOMAIN d.roles THEN Out(d, "AttributeError")
    ELSE [db |-> d, ret |-> RetList(Listed(UsersOfRole(d, role_id)))]

\* remove_role_in_user without the test of line 853
remove_role_in_user_any_user(d, username, role_id) ==
    IF username \notin DOMAIN d.users THEN Out(d, "USER_NOT_EXIST")
    ELSE IF role_id \notin DOMAIN d.roles THEN Out(d, "ROLE_NOT_EXIST")
    ELSE IF BagIn(<<username, role_id>>, d.user_roles)
    THEN Out([d EXCEPT !.user_roles = DeleteAssoc(@, <<username, role_id>>)], "True")
    ELSE Out(d, "INVALID")

\* orm.py:845-871
remove_role_in_user(d, username, role_id) ==
    IF username \in admin_usernames THEN Out(d, "ADMIN_RESOURCES")
    ELSE IF username \notin DOMAIN d.users THEN Out(d, "USER_NOT_EXIST")
    ELSE IF role_id \notin DOMAIN d.roles THEN Out(d, "ROLE_NOT_EXIST")
    ELSE IF BagIn(<<username, role_id>>, d.user_roles)
    THEN Out([d EXCEPT !.user_roles = DeleteAssoc(@, <<username, role_id>>)], "True")
    ELSE Out(d, "INVALID")

\* orm.py:873-880
remove_user_in_role(d, username, role_id) == remove_role_in_user(d, username, role_id)

\* orm.py:891-893: one turn of the loop of remove_all_roles_in_user; the
\* call of remove_role_in_user commits
RemoveAllRolesInUserTurn(d, username, role_id) ==
    IF role_id \in admin_role_ids THEN d
    ELSE remove_role_in_user(d, username, role_id).db

RECURSIVE RemoveAllRolesInUserLoop(_, _, _)
RemoveAllRolesInUserLoop(d, username, todo) ==
    IF todo = <<>> THEN d
    ELSE RemoveAllRolesInUserLoop(RemoveAllRolesInUserTurn(d, username, Head(todo)),
                                  username, Tail(todo))

\* orm.py:882-897
remove_all_roles_in_user(d, username) ==
    IF username \in admin_usernames THEN Out(d, "None")   \* falls off the try
    ELSE IF username \notin DOMAIN d.users
    THEN Out(d, "AttributeError")             \* None.roles
    ELSE Out(RemoveAllRolesInUserLoop(d, username,
                 Ascending(RolesOfUser(d, username))), "True")

\* orm.py:908-910: one turn of the loop of remove_all_users_in_role
RemoveAllUsersInRoleTurn(d, role_id, username) ==
    IF username \in admin_usernames THEN d
    ELSE remove_user_in_role(d, username, role_id).db

RECURSIVE RemoveAllUsersInRoleLoop(_, _, _)
RemoveAllUsersInRoleLoop(d, role_id, todo) ==
    IF todo = <<>> THEN d
    ELSE RemoveAllUsersInRoleLoop(RemoveAllUsersInRoleTurn(d, role_id, Head(todo)),
                                  role_id, Tail(todo))

\* orm.py:899-914
remove_all_users_in_role(d, role_id) ==
    IF role_id \in admin_role_ids THEN Out(d, "None")     \* falls off the try
    ELSE IF role_id \notin DOMAIN d.roles
    THEN Out(d, "AttributeError")             \* None.users
    ELSE Out(RemoveAllUsersInRoleLoop(d, role_id,
                 Listed(UsersOfRole(d, role_id))), "True")

\* orm.py:924-925: the condition under which replace_user_role goes on; an
\* exception raised by exist_user_role leaves replace_user_role
ReplaceUserRoleCheck(d, username, actual_role_id, new_role_id) ==
    IF username \in admin_usernames THEN Ret("False")
    ELSE LET e == exist_user_role(d, username, actual_role_id).ret IN
         IF Raised(e) THEN e
         ELSE IF Truthy(e) /\ new_role_id \in DOMAIN d.roles THEN Ret("True")
         ELSE Ret("False")

\* orm.py:916-930
replace_user_role(d, username, actual_role_id, new_role_id) ==
    LET c == ReplaceUserRoleCheck(d, username, actual_role_id, new_role_id) IN
    IF c.kind # "True" THEN [db |-> d, ret |-> c]
    ELSE LET d1 == remove_role_in_user(d, username, actual_role_id).db
             d2 == add_user_to_role(d1, username, new_role_id).db
         IN Out(d2, "True")

(***************************************************************************)
(* RolesPoliciesManager, orm.py:940-1148.                                  *)
(***************************************************************************)
\* orm.py:946-957 (reserved for internal use: the seeding)
add_policy_to_role_admin(d, role_id, policy_id) ==
    IF policy_id \notin DOMAIN d.policies THEN Out(d, "False")
    ELSE IF role_id \notin DOMAIN d.roles THEN Out(d, "AttributeError")
    ELSE IF AssocUnique(d.roles_policies, <<role_id, policy_id>>)
    THEN Out(d, "False")                      \* IntegrityError, rollback
    ELSE Out([d EXCEPT !.roles_policies = InsertAssoc(@, <<role_id, policy_id>>)],
             "True")

\* orm.py:959-984
add_policy_to_role(d, role_id, policy_id) ==
    IF role_id \in admin_role_ids THEN Out(d, "ADMIN_RESOURCES")
    ELSE IF role_id \notin DOMAIN d.roles THEN Out(d, "ROLE_NOT_EXIST")
    ELSE IF policy_id \notin DOMAIN d.policies THEN Out(d, "POLICY_NOT_EXIST")
    ELSE IF BagIn(<<role_id, policy_id>>, d.roles_policies) THEN Out(d, "ALREADY_EXIST")
    ELSE IF AssocUnique(d.roles_policies, <<role_id, policy_id>>)
    THEN Out(d, "INVALID")                    \* IntegrityError, rollback
    ELSE Out([d EXCEPT !.roles_policies = InsertAssoc(@, <<role_id, policy_id>>)],
             "True")

\* orm.py:986-993
add_role_to_policy(d, policy_id, role_id) == add_policy_to_role(d, role_id, policy_id)

\* orm.py:1023-1043
exist_role_policy(d, role_id, policy_id) ==
    IF role_id \notin DOMAIN d.roles THEN Out(d, "ROLE_NOT_EXIST")
    ELSE IF policy_id \notin DOMAIN d.policies THEN Out(d, "POLICY_NOT_EXIST")
    ELSE IF policy_id \in PoliciesOfRole(d, role_id) THEN Out(d, "True")
    ELSE Out(d, "TypeError")                  \* raise IntegrityError, line 1040

\* orm.py:995-1007
get_all_policies_from_role(d, role_id) ==
    IF role_id \notin DOMAIN d.roles THEN Out(d, "AttributeError")
    ELSE [db |-> d, ret |-> RetList(Ascending(PoliciesOfRole(d, role_id)))]

\* orm.py:1009-1021
get_all_roles_from_policy(d, policy_id) ==
    IF policy_id \notin DOMAIN d.policies THEN Out(d, "AttributeError")
    ELSE [db |-> d, ret |-> RetList(Ascending(RolesOfPolicy(d, policy_id)))]

\* remove_policy_in_role without the else branch of lines 1076-1077
remove_policy_in_role_no_else(d, role_id, policy_id) ==
    IF role_id \in admin_role_ids THEN Out(d, "ADMIN_RESOURCES")
    ELSE IF role_id \notin DOMAIN d.roles THEN Out(d, "ROLE_NOT_EXIST")
    ELSE IF policy_id \notin DOMAIN d.policies THEN Out(d, "POLICY_NOT_EXIST")
    ELSE Out([d EXCEPT !.roles_policies = DeleteAssoc(@, <<role_id, policy_id>>)],
             "True")

\* orm.py:1054-1081
remove_policy_in_role(d, role_id, policy_id) ==
    IF role_id \in admin_role_ids THEN Out(d, "ADMIN_RESOURCES")
    ELSE IF role_id \notin DOMAIN d.roles THEN Out(d, "ROLE_NOT_EXIST")
    ELSE IF policy_id \notin DOMAIN d.policies THEN Out(d, "POLICY_NOT_EXIST")
    ELSE IF BagIn(<<role_id, policy_id>>, d.roles_policies)
    THEN Out([d EXCEPT !.roles_policies = DeleteAssoc(@, <<role_id, policy_id>>)],
             "True")
    ELSE Out(d, "INVALID")

\* orm.py:1083-1090
remove_role_in_policy(d, role_id, policy_id) == remove_policy_in_role(d, role_id, policy_id)

\* orm.py:1101-1103: one turn of the loop of remove_all_policies_in_role
RemoveAllPoliciesInRoleTurn(d, role_id, policy_id) ==
    IF policy_id \in admin_policy_ids THEN d
    ELSE remove_policy_in_role(d, role_id, policy_id).db

RECURSIVE RemoveAllPoliciesInRoleLoop(_, _, _)
RemoveAllPoliciesInRoleLoop(d, role_id, todo) ==
    IF todo = <<>> THEN d
    ELSE RemoveAllPoliciesInRoleLoop(
             RemoveAllPoliciesInRoleTurn(d, role_id, Head(todo)), role_id, Tail(todo))

\* orm.py:1092-1107
remove_all_policies_in_role(d, role_id) ==
    IF role_id \in admin_role_ids THEN Out(d, "None")     \* falls off the try
    ELSE IF role_id \notin DOMAIN d.roles
    THEN Out(d, "AttributeError")             \* None.policies
    ELSE Out(RemoveAllPoliciesInRoleLoop(d, role_id,
                 Ascending(PoliciesOfRole(d, role_id))), "True")

\* orm.py:1118-1120: one turn of the loop of remove_all_roles_in_policy
RemoveAllRolesInPolicyTurn(d, policy_id, role_id) ==
    IF role_id \in admin_role_ids THEN d
    ELSE remove_policy_in_role(d, role_id, policy_id).db

RECURSIVE RemoveAllRolesInPolicyLoop(_, _, _)
RemoveAllRolesInPolicyLoop(d, policy_id, todo) ==
    IF todo = <<>> THEN d
    ELSE RemoveAllRolesInPolicyLoop(
             RemoveAllRolesInPolicyTurn(d, policy_id, Head(todo)), policy_id, Tail(todo))

\* orm.py:1109-1124
remove_all_roles_in_policy(d, policy_id) ==
    IF policy_id \in admin_policy_ids THEN Out(d, "None") \* falls off the try
    ELSE IF policy_id \notin DOMAIN d.policies
    THEN Out(d, "AttributeError")             \* None.roles
    ELSE Out(RemoveAllRolesInPolicyLoop(d, policy_id,
                 Ascending(RolesOfPolicy(d, policy_id))), "True")

\* orm.py:1134-1136: the condition under which replace_role_policy goes on
ReplaceRolePolicyCheck(d, role_id, actual_policy_id, new_policy_id) ==
    IF role_id \in admin_role_ids THEN Ret("False")
    ELSE LET e == exist_role_policy(d, role_id, actual_policy_id).ret IN
         IF Raised(e) THEN e
         ELSE IF Truthy(e) /\ new_policy_id \in DOMAIN d.policies THEN Ret("True")
         ELSE Ret("False")

\* orm.py:1126-1141
replace_role_policy(d, role_id, actual_policy_id, new_policy_id) ==
    LET c == ReplaceRolePolicyCheck(d, role_id, actual_policy_id, new_policy_id) IN
    IF c.kind # "True" THEN [db |-> d, ret |-> c]
    ELSE LET d1 == remove_policy_in_role(d, role_id, actual_policy_id).db
             d2 == add_policy_to_role(d1, role_id, new_policy_id).db
         IN Out(d2, "True")

(***************************************************************************)
(* The seeding at import, orm.py:1160-1194.                                *)
(***************************************************************************)
Star == PyStr(<<"*", ":", "*">>)
\* orm.py:1167-1171
SeedPolicy ==
    PyDict(<< <<"actions", PyList(<<Star>>)>>, <<"resources", PyList(<<Star>>)>>,
              <<"effect", PyStr(<<"allow">>)>> >>)
\* orm.py:1174-1178
SeedRuleWazuh ==
    PyDict(<< <<"FIND", PyDict(<< <<"r'^auth[a-zA-Z]+$'",
                                    PyList(<<PyStr(<<"administrator">>)>>)>> >>)>> >>)
\* orm.py:1179-1183
SeedRuleApp ==
    PyDict(<< <<"FIND", PyDict(<< <<"r'^auth[a-zA-Z]+$'",
                                    PyList(<<PyStr(<<"administrator-app">>)>>)>> >>)>> >>)

\* orm.py:1161-1194: the calls made when the module is imported, in order
Seed ==
    LET d1 == add_user(EmptyDb, "wazuh-app", "wazuh-app", TRUE).db
        d2 == add_user(d1, "wazuh", "wazuh", FALSE).db
        d3 == add_policy(d2, "wazuhPolicy", SeedPolicy).db
        d4 == add_role(d3, "wazuh", SeedRuleWazuh).db
        d5 == add_role(d4, "wazuh-app", SeedRuleApp).db
        d6 == add_role_to_user_admin(d5, "wazuh", get_role(d5, "wazuh")).db
        d7 == add_role_to_user_admin(d6, "wazuh-app", get_role(d6, "wazuh")).db
        d8 == add_policy_to_role_admin(d7, get_role(d7, "wazuh"),
                                       get_policy(d7, "wazuhPolicy")).db
    IN add_policy_to_role_admin(d8, get_role(d8, "wazuh-app"),
                                get_policy(d8, "wazuhPolicy")).db

(***************************************************************************)
(* The arguments the operations are called with.                           *)
(***************************************************************************)
UserNames == {"wazuh", "wazuh-app", "alice"}
Passwords == {"pw1"}
RoleNames == {"wazuh", "r1"}
PolicyNames == {"wazuhPolicy", "p1"}
NewRoleNames == {None, Some("wazuh"), Some("r2")}
NewPolicyNames == {None, Some("wazuhPolicy"), Some("p2")}

RuleA == PyDict(<< <<"a", PyInt("1")>> >>)
RuleB == PyDict(<< <<"b", PyInt("2")>> >>)
RuleArgs == {RuleA, SeedRuleWazuh, PyList(<<>>)}
NewRuleArgs == {PyNone, RuleB, SeedRuleWazuh, PyList(<<>>)}

Tok(s) == PyStr(s)
Body(a, r, e) == PyDict(<< <<"actions", a>>, <<"resources", r>>, <<"effect", e>> >>)
Allow == PyStr(<<"allow">>)
\* a well-formed body, and the same mapping written in another key order
PolA == Body(PyList(<<Tok(<<"a", ":", "b">>)>>), PyList(<<Tok(<<"*", ":", "a", ":", "0">>)>>), Allow)
PolAReordered ==
    PyDict(<< <<"effect", Allow>>, <<"actions", Get(PolA, "actions")>>,
              <<"resources", Get(PolA, "resources")>> >>)
\* a token with a newline after its last segment
PolNewline == Body(PyList(<<Tok(<<"a", ":", "b", "\n">>)>>), PyList(<<Star>>), Allow)
\* tokens outside the grammar: one segment only, an upper-case letter, a
\* digit in the first segment, an empty segment
PolOneSegment == Body(PyList(<<Tok(<<"a">>)>>), PyList(<<Star>>), Allow)
PolUpper == Body(PyList(<<Star>>), PyList(<<Tok(<<"A", ":", "b">>)>>), Allow)
PolDigitFirst == Body(PyList(<<Tok(<<"0", ":", "b">>)>>), PyList(<<Star>>), Allow)
PolEmptySegment == Body(PyList(<<Tok(<<"a", ":", ":", "b">>)>>), PyList(<<Star>>), Allow)
\* wrong shapes
PolNoEffect == PyDict(<< <<"actions", PyList(<<Star>>)>>, <<"resources", PyList(<<Star>>)>> >>)
PolExtraKey ==
    PyDict(<< <<"actions", PyList(<<Star>>)>>, <<"resources", PyList(<<Star>>)>>,
              <<"effect", Allow>>, <<"extra", Allow>> >>)
PolOtherKey ==
    PyDict(<< <<"actions", PyList(<<Star>>)>>, <<"resources", PyList(<<Star>>)>>,
              <<"extra", Allow>> >>)
PolActionsStr == Body(Star, PyList(<<Star>>), Allow)
PolEffectInt == Body(PyList(<<Star>>), PyList(<<Star>>), PyInt("1"))
PolIntItem == Body(PyList(<<PyInt("1")>>), PyList(<<Star>>), Allow)
PolNotDict == PyList(<<Star>>)

\* every sample body, and the ones the calls of the model pass
PolicyBodies ==
    {SeedPolicy, PolA, PolAReordered, PolNewline, PolOneSegment, PolUpper,
     PolDigitFirst, PolEmptySegment, PolNoEffect, PolExtraKey, PolOtherKey,
     PolActionsStr, PolEffectInt, PolIntItem, PolNotDict, PyNone}
PolicyArgs == {SeedPolicy, PolA, PolOneSegment, PolNotDict, PyNone}
NewPolicyArgs == {PyNone, PolA, SeedPolicy, PolUpper, PolNotDict}

(***************************************************************************)
(* State: the committed database, the last call (the operation and what   *)
(* it returned or raised), and the call that is between two of its own     *)
(* commits, if any.  Each call runs on a manager of its own, entered and   *)
(* left around the call (orm.py:365-370, 533-538, 722-727, 932-937,        *)
(* 1143-1148).                                                             *)
(***************************************************************************)
VARIABLES db, last, call
vars == <<db, last, call>>

\* no call is between two of its commits
Idle ==
    [op |-> "idle", user |-> "", a |-> 0, b |-> 0, c |-> 0, todo |-> <<>>,
     utodo |-> <<>>, commits |-> 0, before |-> EmptyDb]

\* a whole call, taken in one step
Call(op, out) ==
    /\ call = Idle
    /\ db' = out.db
    /\ last' = [op |-> op, ret |-> out.ret]
    /\ call' = call

Init ==
    /\ db = Seed
    /\ last = [op |-> "seed", ret |-> Ret("None")]
    /\ call = Idle

AddUser ==
    \E u \in UserNames, p \in Passwords : Call("add_user", add_user(db, u, p, FALSE))
DeleteUser ==
    \E u \in UserNames : Call("delete_user", delete_user(db, u))

AddRole ==
    \E n \in RoleNames, r \in RuleArgs :
        LET out == add_role(db, n, r) IN
        /\ DOMAIN out.db.roles \subseteq RoleIds
        /\ Call("add_role", out)
DeleteRole ==
    \E id \in RoleIds : Call("delete_role", delete_role(db, id))
DeleteRoleByName ==
    \E n \in RoleNames \cup {"r2"} :
        Call("delete_role_by_name", delete_role_by_name(db, n))
DeleteAllRoles == Call("delete_all_roles", delete_all_roles(db))
UpdateRole ==
    \E id \in RoleIds, n \in NewRoleNames, r \in NewRuleArgs :
        Call("update_role", update_role(db, id, n, r))

AddPolicy ==
    \E n \in PolicyNames, p \in PolicyArgs :
        LET out == add_policy(db, n, p) IN
        /\ DOMAIN out.db.policies \subseteq PolicyIds
        /\ Call("add_policy", out)
DeletePolicy ==
    \E id \in PolicyIds : Call("delete_policy", delete_policy(db, id))
DeletePolicyByName ==
    \E n \in PolicyNames \cup {"p2"} :
        Call("delete_policy_by_name", delete_policy_by_name(db, n))
DeleteAllPolicies == Call("delete_all_policies", delete_all_policies(db))
UpdatePolicy ==
    \E id \in PolicyIds, n \in NewPolicyNames, p \in NewPolicyArgs :
        Call("update_policy", update_policy(db, id, n, p))

AddRoleToUser ==
    \E u \in UserNames, r \in RoleIds :
        Call("add_role_to_user", add_role_to_user(db, u, r))
RemoveRoleInUser ==
    \E u \in UserNames, r \in RoleIds :
        Call("remove_role_in_user", remove_role_in_user(db, u, r))
GetAllRolesFromUser ==
    \E u \in UserNames :
        Call("get_all_roles_from_user", get_all_roles_from_user(db, u))
GetAllUsersFromRole ==
    \E r \in RoleIds :
        Call("get_all_users_from_role", get_all_users_from_role(db, r))
RemoveAllRolesInUser ==
    \E u \in UserNames :
        Call("remove_all_roles_in_user", remove_all_roles_in_user(db, u))
RemoveAllUsersInRole ==
    \E r \in RoleIds :
        Call("remove_all_users_in_role", remove_all_users_in_role(db, r))
ReplaceUserRole ==
    \E u \in UserNames, r \in RoleIds, n \in RoleIds :
        Call("replace_user_role", replace_user_role(db, u, r, n))

AddPolicyToRole ==
    \E r \in RoleIds, p \in PolicyIds :
        Call("add_policy_to_role", add_policy_to_role(db, r, p))
RemovePolicyInRole ==
    \E r \in RoleIds, p \in PolicyIds :
        Call("remove_policy_in_role", remove_policy_in_role(db, r, p))
GetAllPoliciesFromRole ==
    \E r \in RoleIds :
        Call("get_all_policies_from_role", get_all_policies_from_role(db, r))
GetAllRolesFromPolicy ==
    \E p \in PolicyIds :
        Call("get_all_roles_from_policy", get_all_roles_from_policy(db, p))
RemoveAllPoliciesInRole ==
    \E r \in RoleIds :
        Call("remove_all_policies_in_role", remove_all_policies_in_role(db, r))
RemoveAllRolesInPolicy ==
    \E p \in PolicyIds :
        Call("remove_all_roles_in_policy", remove_all_roles_in_policy(db, p))
ReplaceRolePolicy ==
    \E r \in RoleIds, p \in PolicyIds, n \in PolicyIds :
        Call("replace_role_policy", replace_role_policy(db, r, p, n))

Next ==
    \/ AddUser \/ DeleteUser
    \/ AddRole \/ DeleteRole \/ DeleteRoleByName \/ DeleteAllRoles \/ UpdateRole
    \/ AddPolicy \/ DeletePolicy \/ DeletePolicyByName \/ DeleteAllPolicies
    \/ UpdatePolicy
    \/ AddRoleToUser \/ RemoveRoleInUser \/ RemoveAllRolesInUser
    \/ RemoveAllUsersInRole \/ ReplaceUserRole
    \/ AddPolicyToRole \/ RemovePolicyInRole \/ RemoveAllPoliciesInRole
    \/ RemoveAllRolesInPolicy \/ ReplaceRolePolicy
    \/ GetAllRolesFromUser \/ GetAllUsersFromRole
    \/ GetAllPoliciesFromRole \/ GetAllRolesFromPolicy

Spec == Init /\ [][Next]_vars

(***************************************************************************)
(* The same operations at the grain of their commits.  A call that commits *)
(* more than once (the loops of the delete_all and remove_all operations, *)
(* the two inner calls of the replace operations) is taken one commit at   *)
(* a time: db is what                                                      *)
(* another session reading the database sees between the steps.            *)
(***************************************************************************)
Begin(op, user, a, b, c, todo, utodo) ==
    /\ call = Idle
    /\ call' = [op |-> op, user |-> user, a |-> a, b |-> b, c |-> c, todo |-> todo,
                utodo |-> utodo, commits |-> 0, before |-> db]
    /\ UNCHANGED <<db, last>>

\* the single-commit calls that build the states the multi-commit calls run
\* from: two roles besides the seeded ones can exist at once here
TxnRoleIds == 1..MaxTxnRoleId
TxnAddRole ==
    \E n \in {"r1", "r2"} :
        LET out == add_role(db, n, IF n = "r1" THEN RuleA ELSE RuleB) IN
        /\ DOMAIN out.db.roles \subseteq TxnRoleIds
        /\ Call("add_role", out)
TxnAddRoleToUser ==
    \E u \in UserNames, r \in TxnRoleIds :
        Call("add_role_to_user", add_role_to_user(db, u, r))
TxnAddPolicyToRole ==
    \E r \in TxnRoleIds, p \in PolicyIds :
        Call("add_policy_to_role", add_policy_to_role(db, r, p))

\* a turn of the running call that leaves the database as d
Turn(d) ==
    /\ db' = d
    /\ call' = [call EXCEPT !.todo = IF @ = <<>> THEN @ ELSE Tail(@),
                            !.utodo = IF @ = <<>> THEN @ ELSE Tail(@),
                            !.commits = IF d = db THEN @ ELSE @ + 1]
    /\ UNCHANGED last

\* orm.py:488-496
TxnDeleteAllRoles ==
    \/ Begin("delete_all_roles", "", 0, 0, 0, Ascending(DOMAIN db.roles), <<>>)
    \/ /\ call.op = "delete_all_roles" /\ call.todo # <<>>
       /\ Turn(DeleteAllRolesTurn(db, Head(call.todo)))

\* orm.py:678-686
TxnDeleteAllPolicies ==
    \/ Begin("delete_all_policies", "", 0, 0, 0, Ascending(DOMAIN db.policies), <<>>)
    \/ /\ call.op = "delete_all_policies" /\ call.todo # <<>>
       /\ Turn(DeleteAllPoliciesTurn(db, Head(call.todo)))

\* orm.py:889-893
TxnRemoveAllRolesInUser ==
    \/ \E u \in DOMAIN db.users \ admin_usernames :
          Begin("remove_all_roles_in_user", u, 0, 0, 0, Ascending(RolesOfUser(db, u)), <<>>)
    \/ /\ call.op = "remove_all_roles_in_user" /\ call.todo # <<>>
       /\ Turn(RemoveAllRolesInUserTurn(db, call.user, Head(call.todo)))

\* orm.py:906-910
TxnRemoveAllUsersInRole ==
    \/ \E r \in DOMAIN db.roles \ admin_role_ids :
          Begin("remove_all_users_in_role", "", r, 0, 0, <<>>, Listed(UsersOfRole(db, r)))
    \/ /\ call.op = "remove_all_users_in_role" /\ call.utodo # <<>>
       /\ Turn(RemoveAllUsersInRoleTurn(db, call.a, Head(call.utodo)))

\* orm.py:1099-1103
TxnRemoveAllPoliciesInRole ==
    \/ \E r \in DOMAIN db.roles \ admin_role_ids :
          Begin("remove_all_policies_in_role", "", r, 0, 0,
                Ascending(PoliciesOfRole(db, r)), <<>>)
    \/ /\ call.op = "remove_all_policies_in_role" /\ call.todo # <<>>
       /\ Turn(RemoveAllPoliciesInRoleTurn(db, call.a, Head(call.todo)))

\* orm.py:1116-1120
TxnRemoveAllRolesInPolicy ==
    \/ \E p \in DOMAIN db.policies \ admin_policy_ids :
          Begin("remove_all_roles_in_policy", "", p, 0, 0,
                Ascending(RolesOfPolicy(db, p)), <<>>)
    \/ /\ call.op = "remove_all_roles_in_policy" /\ call.todo # <<>>
       /\ Turn(RemoveAllRolesInPolicyTurn(db, call.a, Head(call.todo)))

\* orm.py:924-928: the steps left are the inner remove (1) and the inner add (2)
TxnReplaceUserRole ==
    \/ \E u \in UserNames, r \in TxnRoleIds, n \in TxnRoleIds :
          /\ ReplaceUserRoleCheck(db, u, r, n).kind = "True"
          /\ Begin("replace_user_role", u, r, n, 0, <<1, 2>>, <<>>)
    \/ /\ call.op = "replace_user_role" /\ call.todo # <<>>
       /\ Turn(IF Head(call.todo) = 1
               THEN remove_role_in_user(db, call.user, call.a).db
               ELSE add_user_to_role(db, call.user, call.b).db)

\* orm.py:1134-1138
TxnReplaceRolePolicy ==
    \/ \E r \in TxnRoleIds, p \in PolicyIds, n \in PolicyIds :
          /\ ReplaceRolePolicyCheck(db, r, p, n).kind = "True"
          /\ Begin("replace_role_policy", "", r, p, n, <<1, 2>>, <<>>)
    \/ /\ call.op = "replace_role_policy" /\ call.todo # <<>>
       /\ Turn(IF Head(call.todo) = 1
               THEN remove_policy_in_role(db, call.a, call.b).db
               ELSE add_policy_to_role(db, call.a, call.c).db)

\* the running call has taken its last step: it returns
TxnReturn ==
    /\ call.op # "idle"
    /\ call.todo = <<>> /\ call.utodo = <<>>
    /\ last' = [op |-> call.op,
                ret |-> IF call.op = "delete_all_roles"
                        THEN delete_all_roles(call.before).ret
                        ELSE IF call.op = "delete_all_policies"
                        THEN delete_all_policies(call.before).ret
                        ELSE Ret("True")]
    /\ call' = Idle
    /\ UNCHANGED db

TxnNext ==
    \/ AddUser \/ TxnAddRole \/ AddPolicy \/ TxnAddRoleToUser \/ TxnAddPolicyToRole
    \/ TxnDeleteAllRoles \/ TxnDeleteAllPolicies
    \/ TxnRemoveAllRolesInUser \/ TxnRemoveAllUsersInRole
    \/ TxnRemoveAllPoliciesInRole \/ TxnRemoveAllRolesInPolicy
    \/ TxnReplaceUserRole \/ TxnReplaceRolePolicy
    \/ TxnReturn

SpecTxn == Init /\ [][TxnNext]_vars

\* what the running call leaves once it has returned, as the whole-call
\* operators give it
Final(c) ==
    CASE c.op = "delete_all_roles" -> delete_all_roles(c.before).db
      [] c.op = "delete_all_policies" -> delete_all_policies(c.before).db
      [] c.op = "remove_all_roles_in_user" -> remove_all_roles_in_user(c.before, c.user).db
      [] c.op = "remove_all_users_in_role" -> remove_all_users_in_role(c.before, c.a).db
      [] c.op = "remove_all_policies_in_role" -> remove_all_policies_in_role(c.before, c.a).db
      [] c.op = "remove_all_roles_in_policy" -> remove_all_roles_in_policy(c.before, c.a).db
      [] c.op = "replace_user_role" -> replace_user_role(c.before, c.user, c.a, c.b).db
      [] c.op = "replace_role_policy" -> replace_role_policy(c.before, c.a, c.b, c.c).db
      [] OTHER -> c.before

\* the steps of a call end in the database the whole-call operator gives
StepsAgree ==
    (call.op # "idle" /\ call.todo = <<>> /\ call.utodo = <<>>) => db = Final(call)

(***************************************************************************)
(* Two sessions at the grain of their statements.  Each manager has a      *)
(* session of its own (orm.py:932-934, 1143-1145); the queries a call      *)
(* makes before it writes read the committed database, and its write is    *)
(* flushed and committed by session.commit(), where the store applies its  *)
(* UNIQUE constraints.  Between the queries of one session and its commit  *)
(* the other session may take steps.  Here call maps each session to the   *)
(* call it is making: todo holds the steps it has left, passed tells that  *)
(* its queries let it go on to the write, ret what it returned.            *)
(***************************************************************************)
Sessions == {1, 2}

\* the database the two sessions start from: the seeded one, after a user, a
\* role (id 3) and a policy (id 2) were added
RaceStart ==
    LET d1 == add_user(Seed, "alice", "pw1", FALSE).db
        d2 == add_role(d1, "r1", RuleA).db
    IN add_policy(d2, "p1", PolA).db

RaceIdle ==
    [op |-> "idle", user |-> "", a |-> 0, b |-> 0, name |-> "", todo |-> <<>>,
     passed |-> FALSE, ret |-> Ret("None")]

RaceInit ==
    /\ db = RaceStart
    /\ last = [op |-> "seed", ret |-> Ret("None")]
    /\ call = [s \in Sessions |-> RaceIdle]

RaceUsers == {"alice", "wazuh"}
RaceRoles == {1, 3}

\* session s enters a call
RaceBegin(s) ==
    /\ call[s].todo = <<>>
    /\ \E c \in
          {[RaceIdle EXCEPT !.op = "add_role_to_user", !.user = u, !.a = r,
                            !.todo = <<"add_check", "add_commit">>]
              : u \in RaceUsers, r \in RaceRoles}
          \cup
          {[RaceIdle EXCEPT !.op = "remove_role_in_user", !.user = u, !.a = r,
                            !.todo = <<"remove_check", "remove_commit">>]
              : u \in RaceUsers, r \in RaceRoles}
          \cup
          {[RaceIdle EXCEPT !.op = "replace_user_role", !.user = u, !.a = r, !.b = n,
                            !.todo = <<"replace_check", "remove_check", "remove_commit",
                                       "add_check", "add_commit">>]
              : u \in {"alice"}, r \in RaceRoles, n \in RaceRoles}
          \cup
          {[RaceIdle EXCEPT !.op = "add_policy_to_role", !.a = r, !.b = p,
                            !.todo = <<"add_policy_check", "add_policy_commit">>]
              : r \in {3}, p \in PolicyIds}
          \cup
          {[RaceIdle EXCEPT !.op = "add_role", !.name = n, !.todo = <<"add_role_commit">>]
              : n \in {"r1", "r2"}} :
          call' = [call EXCEPT ![s] = c]
    /\ UNCHANGED <<db, last>>

\* the role the add step of session s is about: the new role of a replace
AddedRole(c) == IF c.op = "replace_user_role" THEN c.b ELSE c.a

\* what a call has returned once the step that returned v has run: the inner
\* calls of replace_user_role return to it, and it returns True after the
\* last one (orm.py:926-928)
RaceRet(c, v, rest) ==
    IF c.op = "replace_user_role"
    THEN (IF rest = <<>> THEN Ret("True") ELSE c.ret)
    ELSE v

\* orm.py:759-766: the queries of add_role_to_user
RaceAddCheck(s) ==
    LET c == call[s]
        v == add_role_to_user(db, c.user, AddedRole(c)).ret
    IN /\ c.todo # <<>> /\ Head(c.todo) = "add_check"
       /\ call' = [call EXCEPT ![s] =
                     IF v.kind = "True"
                     THEN [c EXCEPT !.todo = Tail(c.todo), !.passed = TRUE]
                     ELSE [c EXCEPT !.todo = Tail(Tail(c.todo)),
                                    !.ret = RaceRet(c, v, Tail(Tail(c.todo)))]]
       /\ UNCHANGED <<db, last>>

\* orm.py:767-775: the append, the commit and the handler of IntegrityError
RaceAddCommit(s) ==
    LET c == call[s]
        row == <<c.user, AddedRole(c)>>
        clash == AssocUnique(db.user_roles, row)
    IN /\ c.todo # <<>> /\ Head(c.todo) = "add_commit"
       /\ db' = IF clash THEN db
                ELSE [db EXCEPT !.user_roles = InsertAssoc(@, row)]
       /\ call' = [call EXCEPT ![s] =
                     [c EXCEPT !.todo = Tail(c.todo),
                               !.ret = RaceRet(c, Ret(IF clash THEN "INVALID" ELSE "True"),
                                               Tail(c.todo))]]
       /\ UNCHANGED last

\* orm.py:853-860: the queries of remove_role_in_user
RaceRemoveCheck(s) ==
    LET c == call[s]
        v == remove_role_in_user(db, c.user, c.a).ret
    IN /\ c.todo # <<>> /\ Head(c.todo) = "remove_check"
       /\ call' = [call EXCEPT ![s] =
                     IF v.kind = "True"
                     THEN [c EXCEPT !.todo = Tail(c.todo), !.passed = TRUE]
                     ELSE [c EXCEPT !.todo = Tail(Tail(c.todo)),
                                    !.ret = RaceRet(c, v, Tail(Tail(c.todo)))]]
       /\ UNCHANGED <<db, last>>

\* orm.py:861-865: the remove and the commit.  When the other session has
\* deleted the row in between, the DELETE matches no row: the unit of work
\* raises StaleDataError, which no handler of the manager catches, or lets it
\* pass, depending on the row counts the driver reports.
RaceRemoveCommit(s) ==
    LET c == call[s]
        row == <<c.user, c.a>>
    IN /\ c.todo # <<>> /\ Head(c.todo) = "remove_commit"
       /\ IF BagIn(row, db.user_roles)
          THEN /\ db' = [db EXCEPT !.user_roles = DeleteAssoc(@, row)]
               /\ call' = [call EXCEPT ![s] =
                             [c EXCEPT !.todo = Tail(c.todo),
                                       !.ret = RaceRet(c, Ret("True"), Tail(c.todo))]]
          ELSE /\ db' = db
               /\ \/ call' = [call EXCEPT ![s] =
                                [c EXCEPT !.todo = <<>>, !.ret = Ret("StaleDataError")]]
                  \/ call' = [call EXCEPT ![s] =
                                [c EXCEPT !.todo = Tail(c.todo),
                                          !.ret = RaceRet(c, Ret("True"), Tail(c.todo))]]
       /\ UNCHANGED last

\* orm.py:924-925: the condition of replace_user_role
RaceReplaceCheck(s) ==
    LET c == call[s]
        v == ReplaceUserRoleCheck(db, c.user, c.a, c.b)
    IN /\ c.todo # <<>> /\ Head(c.todo) = "replace_check"
       /\ call' = [call EXCEPT ![s] =
                     IF v.kind = "True"
                     THEN [c EXCEPT !.todo = Tail(c.todo)]
                     ELSE [c EXCEPT !.todo = <<>>, !.ret = v]]
       /\ UNCHANGED <<db, last>>

\* orm.py:963-970: the queries of add_policy_to_role
RaceAddPolicyCheck(s) ==
    LET c == call[s]
        v == add_policy_to_role(db, c.a, c.b).ret
    IN /\ c.todo # <<>> /\ Head(c.todo) = "add_policy_check"
       /\ call' = [call EXCEPT ![s] =
                     IF v.kind = "True"
                     THEN [c EXCEPT !.todo = Tail(c.todo), !.passed = TRUE]
                     ELSE [c EXCEPT !.todo = <<>>, !.ret = v]]
       /\ UNCHANGED <<db, last>>

\* orm.py:971-984: the append, the commit and the handler of IntegrityError
RaceAddPolicyCommit(s) ==
    LET c == call[s]
        row == <<c.a, c.b>>
        clash == AssocUnique(db.roles_policies, row)
    IN /\ c.todo # <<>> /\ Head(c.todo) = "add_policy_commit"
       /\ db' = IF clash THEN db
                ELSE [db EXCEPT !.roles_policies = InsertAssoc(@, row)]
       /\ call' = [call EXCEPT ![s] =
                     [c EXCEPT !.todo = <<>>,
                               !.ret = Ret(IF clash THEN "INVALID" ELSE "True")]]
       /\ UNCHANGED last

\* orm.py:425-433: add_role makes no query before its write; the INSERT and
\* the commit are one step of the store
RaceAddRole(s) ==
    LET c == call[s]
        out == add_role(db, c.name, IF c.name = "r1" THEN RuleA ELSE RuleB)
    IN /\ c.todo # <<>> /\ Head(c.todo) = "add_role_commit"
       /\ DOMAIN out.db.roles \subseteq TxnRoleIds
       /\ db' = out.db
       /\ call' = [call EXCEPT ![s] = [c EXCEPT !.todo = <<>>, !.passed = TRUE,
                                                !.ret = out.ret]]
       /\ UNCHANGED last

RaceNext ==
    \E s \in Sessions :
        \/ RaceBegin(s)
        \/ RaceAddCheck(s) \/ RaceAddCommit(s)
        \/ RaceRemoveCheck(s) \/ RaceRemoveCommit(s)
        \/ RaceReplaceCheck(s)
        \/ RaceAddPolicyCheck(s) \/ RaceAddPolicyCommit(s)
        \/ RaceAddRole(s)

SpecRace == RaceInit /\ [][RaceNext]_vars

(***************************************************************************)
(* The AuthenticationManager alone (orm.py:247-370), with more than one    *)
(* password.  Here call is a record of what the callers did: for each      *)
(* username, the password given to the latest add_user or update_user of   *)
(* that name that returned True, "" when there was none.                   *)
(***************************************************************************)
AuthUsers == {"wazuh", "alice", "bob"}
AuthPasswords == {"wazuh", "pw1", "pw2"}

AuthInit ==
    /\ db = Seed
    /\ last = [op |-> "seed", ret |-> Ret("None")]
    /\ call = [u \in AuthUsers |-> IF u = "wazuh" THEN "wazuh" ELSE ""]

\* a call that returned True for username with password
Given(out, username, password) ==
    IF out.ret = Ret("True") THEN [call EXCEPT ![username] = password] ELSE call

AuthAddUser ==
    \E u \in AuthUsers, p \in AuthPasswords :
        LET out == add_user(db, u, p, FALSE) IN
        /\ db' = out.db
        /\ last' = [op |-> "add_user", ret |-> out.ret]
        /\ call' = Given(out, u, p)

AuthUpdateUser ==
    \E u \in AuthUsers, p \in AuthPasswords :
        LET out == update_user(db, u, p) IN
        /\ db' = out.db
        /\ last' = [op |-> "update_user", ret |-> out.ret]
        /\ call' = Given(out, u, p)

AuthDeleteUser ==
    \E u \in AuthUsers :
        LET out == delete_user(db, u) IN
        /\ db' = out.db
        /\ last' = [op |-> "delete_user", ret |-> out.ret]
        /\ call' = call

AuthCheckUser ==
    \E u \in AuthUsers, p \in AuthPasswords :
        LET out == check_user(db, u, p) IN
        /\ db' = out.db
        /\ last' = [op |-> "check_user", ret |-> out.ret]
        /\ call' = call

AuthNext == AuthAddUser \/ AuthUpdateUser \/ AuthDeleteUser \/ AuthCheckUser

SpecAuth == AuthInit /\ [][AuthNext]_vars

(***************************************************************************)
(* One AuthenticationManager kept open over several calls, next to a       *)
(* UserRolesManager that works in a session of its own.  A manager gets    *)
(* its session in __enter__ and keeps it until __exit__ (orm.py:363-367),  *)
(* so what one call deletes in the session without committing or rolling   *)
(* back is still there for the next call, whose commit writes it.          *)
(* call.pending holds the user_roles rows the AuthenticationManager's      *)
(* session has deleted and not yet committed; call.adding is the <<user,   *)
(* role>> pair for which the other session's add_role_to_user has passed   *)
(* its queries, call.ret the last return of that other session.  last is   *)
(* the last return of the AuthenticationManager.                           *)
(***************************************************************************)
SessUsers == {"wazuh", "alice", "bob"}
SessPasswords == {"pw1", "pw2"}
SessRoles == {1, 2}

SessInit ==
    /\ db = Seed
    /\ last = [op |-> "seed", ret |-> Ret("None")]
    /\ call = [open |-> FALSE, pending |-> {}, adding |-> <<>>, ret |-> Ret("None")]

\* the store as the AuthenticationManager's session reads it: the committed
\* rows without those it has deleted in its open transaction
SessionView ==
    [db EXCEPT !.user_roles = [row \in DOMAIN @ \ call.pending |-> @[row]]]

\* orm.py:363-365
SessEnter ==
    /\ ~call.open
    /\ call' = [call EXCEPT !.open = TRUE, !.pending = {}]
    /\ last' = [op |-> "__enter__", ret |-> Ret("None")]
    /\ db' = db

\* orm.py:366-367: close() drops what the session has not committed
SessExit ==
    /\ call.open
    /\ call' = [call EXCEPT !.open = FALSE, !.pending = {}]
    /\ last' = [op |-> "__exit__", ret |-> Ret("None")]
    /\ db' = db

\* orm.py:252-268: commit() writes everything the session holds, rollback()
\* in the handler drops it
SessAddUser ==
    \E u \in SessUsers, p \in SessPasswords :
        LET out == add_user(SessionView, u, p, FALSE) IN
        /\ call.open
        /\ db' = IF out.ret = Ret("True") THEN out.db ELSE db
        /\ last' = [op |-> "add_user", ret |-> out.ret]
        /\ call' = [call EXCEPT !.pending = {}]

\* orm.py:270-286: the else branch of line 283 returns without a rollback
SessUpdateUser ==
    \E u \in SessUsers, p \in SessPasswords :
        LET out == update_user(SessionView, u, p) IN
        /\ call.open
        /\ db' = IF out.ret = Ret("True") THEN out.db ELSE db
        /\ last' = [op |-> "update_user", ret |-> out.ret]
        /\ call' = IF out.ret = Ret("True") THEN [call EXCEPT !.pending = {}] ELSE call

\* orm.py:288-307: lines 298-301 delete in the session every user_roles row
\* of username before line 302 looks the user up; for a missing user
\* session.delete(None) raises UnmappedInstanceError and the handler of
\* lines 305-307 returns False without a rollback
SessDeleteUser ==
    \E u \in SessUsers :
        LET out == delete_user(SessionView, u) IN
        /\ call.open
        /\ db' = IF out.ret = Ret("True") THEN out.db ELSE db
        /\ last' = [op |-> "delete_user", ret |-> out.ret]
        /\ call' = IF out.ret = Ret("True") THEN [call EXCEPT !.pending = {}]
                   ELSE IF out.ret = Ret("False")
                   THEN [call EXCEPT !.pending =
                            @ \cup {row \in DOMAIN SessionView.user_roles : row[1] = u}]
                   ELSE call

\* orm.py:309-317
SessCheckUser ==
    \E u \in SessUsers, p \in SessPasswords :
        /\ call.open
        /\ last' = [op |-> "check_user", ret |-> check_user(SessionView, u, p).ret]
        /\ UNCHANGED <<db, call>>

\* orm.py:759-766 in the other session: the queries of add_role_to_user,
\* which read the committed rows
SessOtherAddCheck ==
    \E u \in SessUsers, r \in SessRoles :
        LET v == add_role_to_user(db, u, r).ret IN
        /\ call.adding = <<>>
        /\ call' = IF v.kind = "True"
                   THEN [call EXCEPT !.adding = <<u, r>>]
                   ELSE [call EXCEPT !.ret = v]
        /\ UNCHANGED <<db, last>>

\* orm.py:767-775 in the other session: the append, the commit and the
\* handler of IntegrityError.  SQLite admits one writer: the step waits
\* while the AuthenticationManager's session holds uncommitted deletes.
SessOtherAddCommit ==
    LET clash == AssocUnique(db.user_roles, call.adding) IN
    /\ call.adding # <<>>
    /\ call.pending = {}
    /\ db' = IF clash THEN db
             ELSE [db EXCEPT !.user_roles = InsertAssoc(@, call.adding)]
    /\ call' = [call EXCEPT !.adding = <<>>,
                            !.ret = Ret(IF clash THEN "INVALID" ELSE "True")]
    /\ UNCHANGED last

SessNext ==
    \/ SessEnter
    \/ SessExit
    \/ SessAddUser
    \/ SessUpdateUser
    \/ SessDeleteUser
    \/ SessCheckUser
    \/ SessOtherAddCheck
    \/ SessOtherAddCommit

SpecSession == SessInit /\ [][SessNext]_vars

(***************************************************************************)
(* Properties.                                                             *)
(***************************************************************************)
\* the rows of an association table
Rows(table) == DOMAIN table

\* C1: in every reachable state every user_roles row references a user and
\* a role that both exist, and every roles_policies row a role and a policy
\* that both exist.
NoOrphanRows ==
    /\ \A row \in Rows(db.user_roles) :
          row[1] \in DOMAIN db.users /\ row[2] \in DOMAIN db.roles
    /\ \A row \in Rows(db.roles_policies) :
          row[1] \in DOMAIN db.roles /\ row[2] \in DOMAIN db.policies

\* C2: add_role_to_user and add_policy_to_role choose their result in a
\* fixed order: ADMIN_RESOURCES when the first argument is reserved, whatever
\* else holds; else the error for a missing first entity; else the error for
\* a missing second entity; else ALREADY_EXIST when the row exists; else the
\* row is inserted and the result is True.  Every error leaves the store as
\* it was.
AddChecksInOrder ==
    /\ \A u \in UserNames, r \in RoleIds :
          LET out == add_role_to_user(db, u, r) IN
          IF u \in admin_usernames
          THEN out = Out(db, "ADMIN_RESOURCES")
          ELSE IF u \notin DOMAIN db.users THEN out = Out(db, "USER_NOT_EXIST")
          ELSE IF r \notin DOMAIN db.roles THEN out = Out(db, "ROLE_NOT_EXIST")
          ELSE IF <<u, r>> \in Rows(db.user_roles) THEN out = Out(db, "ALREADY_EXIST")
          ELSE /\ out.ret.kind = "True"
               /\ out.db = [db EXCEPT !.user_roles = @ (+) SetToBag({<<u, r>>})]
    /\ \A r \in RoleIds, p \in PolicyIds :
          LET out == add_policy_to_role(db, r, p) IN
          IF r \in admin_role_ids
          THEN out = Out(db, "ADMIN_RESOURCES")
          ELSE IF r \notin DOMAIN db.roles THEN out = Out(db, "ROLE_NOT_EXIST")
          ELSE IF p \notin DOMAIN db.policies THEN out = Out(db, "POLICY_NOT_EXIST")
          ELSE IF <<r, p>> \in Rows(db.roles_policies) THEN out = Out(db, "ALREADY_EXIST")
          ELSE /\ out.ret.kind = "True"
               /\ out.db = [db EXCEPT !.roles_policies = @ (+) SetToBag({<<r, p>>})]

\* add_role_to_user has just answered ADMIN_RESOURCES in a state where some
\* role id names no role: the reserved user wins over the missing role
AdminRefusedWhileRoleMissing ==
    /\ last.op = "add_role_to_user" /\ last.ret.kind = "ADMIN_RESOURCES"
    /\ \E r \in RoleIds : /\ r \notin DOMAIN db.roles
                          /\ add_role_to_user(db, "wazuh", r).ret.kind = "ADMIN_RESOURCES"

\* C3, as stated: a row (user, role) whose role id is reserved, or a row
\* (role, policy) whose policy id is reserved, is never removed by a call.
ReservedIdRowsKept ==
    [][ /\ \A row \in Rows(db.user_roles) :
              row[2] \in admin_role_ids => row \in Rows(db'.user_roles)
        /\ \A row \in Rows(db.roles_policies) :
              row[2] \in admin_policy_ids => row \in Rows(db'.roles_policies) ]_vars

\* C3, amended: no call removes a row whose first column is reserved (a row
\* of wazuh or wazuh-app in user_roles, a row of role 1 or 2 in
\* roles_policies), and the remove_all operations leave every row whose
\* second column is reserved.
ReservedOwnerRowsKept ==
    [][ /\ \A row \in Rows(db.user_roles) :
              row[1] \in admin_usernames => row \in Rows(db'.user_roles)
        /\ \A row \in Rows(db.roles_policies) :
              row[1] \in admin_role_ids => row \in Rows(db'.roles_policies)
        /\ last'.op \in {"remove_all_roles_in_user", "remove_all_users_in_role"} =>
              \A row \in Rows(db.user_roles) :
                  row[2] \in admin_role_ids => row \in Rows(db'.user_roles)
        /\ last'.op \in {"remove_all_policies_in_role", "remove_all_roles_in_policy"} =>
              \A row \in Rows(db.roles_policies) :
                  row[2] \in admin_policy_ids => row \in Rows(db'.roles_policies) ]_vars

\* remove_all_roles_in_user has just returned True for a user who still holds
\* a reserved role, next to the rows of the reserved users
RemoveAllLeftReservedRole ==
    /\ last.op = "remove_all_roles_in_user" /\ last.ret.kind = "True"
    /\ \E row \in Rows(db.user_roles) :
          row[1] \notin admin_usernames /\ row[2] \in admin_role_ids
    /\ \E row \in Rows(db.user_roles) : row[1] \in admin_usernames

\* C4: in every reachable state roles 1 and 2 and policy 1 exist with the
\* name and the rule / policy body they were seeded with.
ReservedEntitiesKept ==
    /\ admin_role_ids \subseteq DOMAIN db.roles
    /\ admin_policy_ids \subseteq DOMAIN db.policies
    /\ db.roles[1].name = "wazuh" /\ json_loads(db.roles[1].rule) = SeedRuleWazuh
    /\ db.roles[2].name = "wazuh-app" /\ json_loads(db.roles[2].rule) = SeedRuleApp
    /\ db.policies[1].name = "wazuhPolicy"
    /\ json_loads(db.policies[1].policy) = SeedPolicy

\* an update or a delete of a reserved role or policy has just been refused
\* while a role that is not reserved exists
ReservedEntityRefused ==
    /\ last.op \in {"update_role", "update_policy", "delete_role", "delete_policy"}
    /\ last.ret.kind = "ADMIN_RESOURCES"
    /\ DOMAIN db.roles # admin_role_ids

\* C5: in every reachable state wazuh and wazuh-app exist and the roles
\* associated with each of them are the seeded ones.
ReservedUsersKept ==
    \A u \in admin_usernames :
        /\ u \in DOMAIN db.users
        /\ {row[2] : row \in {x \in Rows(db.user_roles) : x[1] = u}}
              = {row[2] : row \in {x \in Rows(Seed.user_roles) : x[1] = u}}
        /\ RolesOfUser(db, u) = RolesOfUser(Seed, u)

\* delete_user has just refused a reserved username while another user exists
ReservedUserRefused ==
    /\ last.op = "delete_user" /\ last.ret.kind = "ADMIN_RESOURCES"
    /\ DOMAIN db.users # admin_usernames

\* The policy-token grammar as the specification words it: segment
\* (":" segment)+, the first segment over [a-z*], the later ones over
\* [a-z0-9*].  The segments of w are what lies between its colons.
RECURSIVE SplitColon(_, _, _)
SplitColon(w, i, cur) ==
    IF i > Len(w) THEN <<cur>>
    ELSE IF w[i] = ":" THEN <<cur>> \o SplitColon(w, i + 1, <<>>)
    ELSE SplitColon(w, i + 1, Append(cur, w[i]))

TokenGrammar(w) ==
    LET segs == SplitColon(w, 1, <<>>) IN
    /\ Len(segs) >= 2
    /\ \A k \in 1..Len(segs) :
          /\ segs[k] # <<>>
          /\ \A j \in 1..Len(segs[k]) :
                segs[k][j] \in (IF k = 1 THEN FirstClass ELSE RestClass)

\* a mapping with exactly the keys actions, resources, effect, actions and
\* resources lists of strings of the grammar, effect a string
WellFormedBody(b) ==
    /\ b.t = "dict"
    /\ Len(b.v) = 3
    /\ Keys(b) = {"actions", "resources", "effect"}
    /\ Get(b, "actions").t = "list"
    /\ Get(b, "resources").t = "list"
    /\ Get(b, "effect").t = "str"
    /\ \A k \in {"actions", "resources"} :
          \A i \in 1..Len(Get(b, k).v) :
              Get(b, k).v[i].t = "str" /\ TokenGrammar(Get(b, k).v[i].v)

\* C6: every policy body stored in the policies table, by add_policy or by
\* update_policy, is well formed.
StoredBodiesWellFormed ==
    \A id \in DOMAIN db.policies : WellFormedBody(json_loads(db.policies[id].policy))

\* C7: add_policy succeeds exactly for the well-formed bodies (a name or a
\* body already stored aside); for every other body it returns INVALID and
\* stores nothing.
AddPolicyExactlyWellFormed ==
    \A n \in PolicyNames, b \in PolicyBodies :
        LET out == add_policy(db, n, b) IN
        IF WellFormedBody(b)
        THEN \/ /\ PolicyUnique(db, NextId(db.policies), n, json_dumps(b))
                /\ out = Out(db, "ALREADY_EXIST")
             \/ /\ out.ret.kind = "True"
                /\ \E id \in DOMAIN out.db.policies \ DOMAIN db.policies :
                      /\ out.db.policies[id].name = n
                      /\ json_loads(out.db.policies[id].policy) = b
        ELSE out = Out(db, "INVALID")

\* a result that is neither success nor an exception
Failure(ret) == ret.kind = "False" \/ ret.kind \in SecurityError

\* the conditions under which a replace may succeed
ReplaceUserRolePre(d, u, r, n) ==
    /\ u \notin admin_usernames
    /\ u \in DOMAIN d.users
    /\ <<u, r>> \in Rows(d.user_roles)
    /\ n \in DOMAIN d.roles
ReplaceRolePolicyPre(d, r, p, n) ==
    /\ r \notin admin_role_ids
    /\ r \in DOMAIN d.roles
    /\ <<r, p>> \in Rows(d.roles_policies)
    /\ n \in DOMAIN d.policies

\* C8: replace_user_role / replace_role_policy returns success only when its
\* first argument is not reserved and exists, the row (a, old_b) exists and
\* new_b exists; in every other case it returns failure.
ReplaceOnlyWhenAllowed ==
    /\ \A u \in UserNames, r \in RoleIds, n \in RoleIds :
          ReplaceUserRolePre(db, u, r, n)
          \/ Failure(replace_user_role(db, u, r, n).ret)
    /\ \A r \in RoleIds, p \in PolicyIds, n \in PolicyIds :
          ReplaceRolePolicyPre(db, r, p, n)
          \/ Failure(replace_role_policy(db, r, p, n).ret)

\* C9: a replace called where it may succeed returns success only if its
\* inner remove and its inner add both returned success.
ReplaceSuccessMeansBothSteps ==
    /\ \A u \in UserNames, r \in RoleIds, n \in RoleIds :
          LET rm == remove_role_in_user(db, u, r)
              ad == add_user_to_role(rm.db, u, n)
          IN (/\ ReplaceUserRolePre(db, u, r, n)
              /\ replace_user_role(db, u, r, n).ret.kind = "True")
             => (rm.ret.kind = "True" /\ ad.ret.kind = "True")
    /\ \A r \in RoleIds, p \in PolicyIds, n \in PolicyIds :
          LET rm == remove_policy_in_role(db, r, p)
              ad == add_policy_to_role(rm.db, r, n)
          IN (/\ ReplaceRolePolicyPre(db, r, p, n)
              /\ replace_role_policy(db, r, p, n).ret.kind = "True")
             => (rm.ret.kind = "True" /\ ad.ret.kind = "True")

\* C10: what another session reads while a call runs is the database as it
\* was before the call or as the call leaves it, never a part of the call's
\* writes.
CallsAtomic ==
    call.op # "idle" => db \in {call.before, Final(call)}

\* delete_all_roles has committed the deletion of one role and has another
\* role still to delete
DeleteAllRolesHalfDone ==
    /\ call.op = "delete_all_roles"
    /\ db # call.before /\ db # Final(call)

\* the two sessions have both finished a call of op on the same arguments,
\* each after its queries let it go on to its write
Raced(op, s, t) ==
    /\ s # t
    /\ call[s].op = op /\ call[t].op = op
    /\ call[s].todo = <<>> /\ call[t].todo = <<>>
    /\ call[s].passed /\ call[t].passed
    /\ call[s].user = call[t].user /\ call[s].a = call[t].a
    /\ call[s].b = call[t].b /\ call[s].name = call[t].name

(***************************************************************************)
(* C11.  When two sessions add the same association pair, or a role of     *)
(* the same name, and both have passed their checks before either          *)
(* commits, exactly one of the two calls returns True and the other        *)
(* returns ALREADY_EXIST.                                                  *)
(* The code does not do this for the association tables: the session that  *)
(* commits second gets IntegrityError from the UNIQUE constraint, and the  *)
(* handlers at orm.py:773-775 and 982-984 answer INVALID.                  *)
(***************************************************************************)
RacingAddsOneAlreadyExists ==
    \A s, t \in Sessions :
        /\ \A op \in {"add_role_to_user", "add_policy_to_role"} :
              Raced(op, s, t) =>
                  {call[s].ret.kind, call[t].ret.kind} = {"True", "ALREADY_EXIST"}
        /\ (Raced("add_role", s, t) /\ call[s].ret.kind = "True") =>
              call[t].ret.kind = "ALREADY_EXIST"

\* both sessions added the same role to the same user after both found the
\* pair missing; the second to commit did not get ALREADY_EXIST
RacingAddAnsweredInvalid ==
    \E s, t \in Sessions :
        /\ Raced("add_role_to_user", s, t)
        /\ call[s].ret.kind = "True" /\ call[t].ret.kind = "INVALID"

(***************************************************************************)
(* C12.  Under every interleaving of the add, remove and replace calls of  *)
(* two sessions, each association table holds at most one row per pair.    *)
(***************************************************************************)
AtMostOneRowPerPair ==
    /\ \A row \in DOMAIN db.user_roles : db.user_roles[row] = 1
    /\ \A row \in DOMAIN db.roles_policies : db.roles_policies[row] = 1

\* a session passed its queries, and its write was then refused by the
\* constraint because the other session had inserted the pair meanwhile
AddRefusedAtCommit ==
    \E s \in Sessions :
        /\ call[s].op \in {"add_role_to_user", "add_policy_to_role"}
        /\ call[s].todo = <<>> /\ call[s].passed
        /\ call[s].ret.kind = "INVALID"

(***************************************************************************)
(* C13.  In every reachable state no two roles have the same name, no two  *)
(* roles the same serialized rule, no two policies the same name and no    *)
(* two policies the same serialized body: no add or update commits a       *)
(* state in which two rows agree on one of these columns.                  *)
(***************************************************************************)
UniqueColumnsKept ==
    /\ \A i, j \in DOMAIN db.roles :
          i # j => /\ db.roles[i].name # db.roles[j].name
                   /\ db.roles[i].rule # db.roles[j].rule
    /\ \A i, j \in DOMAIN db.policies :
          i # j => /\ db.policies[i].name # db.policies[j].name
                   /\ db.policies[i].policy # db.policies[j].policy

\* add_role was refused by a constraint of the roles table while other roles
\* than the seeded ones exist
DuplicateRoleRefused ==
    /\ last.op = "add_role" /\ last.ret.kind = "ALREADY_EXIST"
    /\ DOMAIN db.roles \ admin_role_ids # {}

(***************************************************************************)
(* C14.  No manager operation lets a fault escape: whatever the operation  *)
(* and whatever its arguments, usernames, ids and names of entities that   *)
(* exist or not, the call returns a value and raises nothing.  last holds  *)
(* the outcome of the latest call, and the calls are made with arguments   *)
(* of both kinds.                                                          *)
(* The code raises: SecurityError.ROLE_NOT_EXIST has no attribute id       *)
(* (orm.py:467, 657), None has no attribute roles, users or policies       *)
(* (794, 808, 890, 907, 1003, 1017, 1100, 1117), and the bare              *)
(* raise IntegrityError of lines 450, 632, 831, 1040 is a TypeError.       *)
(***************************************************************************)
NoFaultEscapes == ~Raised(last.ret)

\* delete_role_by_name or delete_policy_by_name was called with a name no
\* row has, and raised
DeleteByNameRaised ==
    /\ last.op \in {"delete_role_by_name", "delete_policy_by_name"}
    /\ last.ret.kind = "AttributeError"

(***************************************************************************)
(* C15.  get_all_roles_from_user, get_all_users_from_role,                 *)
(* get_all_policies_from_role and get_all_roles_from_policy return an      *)
(* empty list, and raise nothing, when the user, role or policy they are   *)
(* asked about does not exist.                                             *)
(* The code reads an attribute of the None that first() returned           *)
(* (orm.py:794, 808, 1003, 1017): AttributeError.                          *)
(***************************************************************************)
ListOfMissingIsEmpty ==
    /\ \A u \in UserNames \ DOMAIN db.users :
          get_all_roles_from_user(db, u).ret = RetList(<<>>)
    /\ \A r \in RoleIds \ DOMAIN db.roles :
          /\ get_all_users_from_role(db, r).ret = RetList(<<>>)
          /\ get_all_policies_from_role(db, r).ret = RetList(<<>>)
    /\ \A p \in PolicyIds \ DOMAIN db.policies :
          get_all_roles_from_policy(db, p).ret = RetList(<<>>)

\* a list was asked of an entity that does not exist, and the call raised
ListOfMissingRaised ==
    /\ last.op \in {"get_all_roles_from_user", "get_all_users_from_role",
                    "get_all_policies_from_role", "get_all_roles_from_policy"}
    /\ Raised(last.ret)

\* the rows of an association table whose column col (1 or 2) holds key
RowsOf(table, col, key) == {row \in Rows(table) : row[col] = key}

\* table t2 is table t1 without the rows of key in column col, except those
\* whose peer is in the set kept
RemovedAllBut(t1, t2, col, key, kept) ==
    /\ RowsOf(t2, col, key) = {row \in RowsOf(t1, col, key) : row[3 - col] \in kept}
    /\ Rows(t2) \ RowsOf(t2, col, key) = Rows(t1) \ RowsOf(t1, col, key)

(***************************************************************************)
(* C16.  After remove_all_roles_in_user, remove_all_users_in_role,         *)
(* remove_all_policies_in_role or remove_all_roles_in_policy on an         *)
(* existing entity that is not admin-protected, the associations of that   *)
(* entity that remain are exactly those it had whose peer is               *)
(* admin-protected, and the associations of other entities are unchanged.  *)
(* The code walks the join of the association table with the peer table    *)
(* (orm.py:890-893), so a user_roles row whose role was deleted is never   *)
(* visited and stays.                                                      *)
(***************************************************************************)
RemoveAllLeavesProtectedOnly ==
    /\ \A u \in DOMAIN db.users \ admin_usernames :
          LET d2 == remove_all_roles_in_user(db, u).db IN
          /\ RemovedAllBut(db.user_roles, d2.user_roles, 1, u, admin_role_ids)
          /\ d2.roles_policies = db.roles_policies
    /\ \A r \in DOMAIN db.roles \ admin_role_ids :
          LET d2 == remove_all_users_in_role(db, r).db
              d3 == remove_all_policies_in_role(db, r).db IN
          /\ RemovedAllBut(db.user_roles, d2.user_roles, 2, r, admin_usernames)
          /\ d2.roles_policies = db.roles_policies
          /\ RemovedAllBut(db.roles_policies, d3.roles_policies, 1, r, admin_policy_ids)
          /\ d3.user_roles = db.user_roles
    /\ \A p \in DOMAIN db.policies \ admin_policy_ids :
          LET d2 == remove_all_roles_in_policy(db, p).db IN
          /\ RemovedAllBut(db.roles_policies, d2.roles_policies, 2, p, admin_role_ids)
          /\ d2.user_roles = db.user_roles

\* remove_all_roles_in_user returned True and its user still has a row whose
\* role is not admin-protected
RemoveAllLeftOrphanRow ==
    /\ last.op = "remove_all_roles_in_user" /\ last.ret.kind = "True"
    /\ \E row \in Rows(db.user_roles) :
          /\ row[1] \in DOMAIN db.users \ admin_usernames
          /\ row[2] \notin admin_role_ids

\* the call left the database d as it was and returned False
RefusedWithFalse(d, out) == out.db = d /\ out.ret = Ret("False")

(***************************************************************************)
(* C17.  A remove_all operation called with an admin-protected user, role  *)
(* or policy changes no row of any table and returns False.                *)
(* In the code the test of line 889 (906, 1099, 1116) has no else branch:  *)
(* the call changes nothing and falls off the end of the try, which        *)
(* returns None.                                                           *)
(***************************************************************************)
RemoveAllOnReservedReturnsFalse ==
    /\ \A u \in admin_usernames :
          RefusedWithFalse(db, remove_all_roles_in_user(db, u))
    /\ \A r \in admin_role_ids :
          /\ RefusedWithFalse(db, remove_all_users_in_role(db, r))
          /\ RefusedWithFalse(db, remove_all_policies_in_role(db, r))
    /\ \A p \in admin_policy_ids :
          RefusedWithFalse(db, remove_all_roles_in_policy(db, p))

\* a remove_all operation was called with an admin-protected entity and
\* returned None
RemoveAllOnReservedReturnedNone ==
    /\ last.op \in {"remove_all_roles_in_user", "remove_all_users_in_role",
                    "remove_all_policies_in_role", "remove_all_roles_in_policy"}
    /\ last.ret.kind = "None"

\* what the remove of the pair <<a, b>> from one association table must
\* give: the refusals in their order, then INVALID for a pair that is not
\* there, then the database without that one row.  reserved tells that a is
\* admin-protected, hasA and hasB that the endpoints exist.
RemoveOutcome(d, out, table, a, b, reserved, hasA, noA, hasB, noB) ==
    IF reserved THEN out = Out(d, "ADMIN_RESOURCES")
    ELSE IF ~hasA THEN out = Out(d, noA)
    ELSE IF ~hasB THEN out = Out(d, noB)
    ELSE IF <<a, b>> \notin Rows(d[table]) THEN out = Out(d, "INVALID")
    ELSE /\ out.ret = Ret("True")
         /\ Rows(out.db[table]) = Rows(d[table]) \ {<<a, b>>}
         /\ \A row \in Rows(out.db[table]) : out.db[table][row] = d[table][row]
         /\ \A t \in DOMAIN d \ {table} : out.db[t] = d[t]

(***************************************************************************)
(* C18.  remove_role_in_user and remove_policy_in_role make the checks of  *)
(* the add operations in the same order: ADMIN_RESOURCES for an            *)
(* admin-protected user or role, then USER_NOT_EXIST or ROLE_NOT_EXIST,    *)
(* then ROLE_NOT_EXIST or POLICY_NOT_EXIST.  When both endpoints exist     *)
(* and the pair is not associated they return INVALID and change nothing;  *)
(* otherwise they delete exactly that row and return True.                 *)
(***************************************************************************)
RemoveChecksInOrder ==
    /\ \A u \in UserNames, r \in RoleIds :
          RemoveOutcome(db, remove_role_in_user(db, u, r), "user_roles", u, r,
                        u \in admin_usernames,
                        u \in DOMAIN db.users, "USER_NOT_EXIST",
                        r \in DOMAIN db.roles, "ROLE_NOT_EXIST")
    /\ \A r \in RoleIds, p \in PolicyIds :
          RemoveOutcome(db, remove_policy_in_role(db, r, p), "roles_policies", r, p,
                        r \in admin_role_ids,
                        r \in DOMAIN db.roles, "ROLE_NOT_EXIST",
                        p \in DOMAIN db.policies, "POLICY_NOT_EXIST")

\* a remove was refused with INVALID: both endpoints existed, the pair was
\* not associated
RemoveOfMissingPairRefused ==
    /\ last.op \in {"remove_role_in_user", "remove_policy_in_role"}
    /\ last.ret.kind = "INVALID"

\* user u exists and is not admin-protected, role r exists, and user_roles
\* of d has no row for the pair
Addable(d, u, r) ==
    /\ u \in DOMAIN d.users \ admin_usernames
    /\ r \in DOMAIN d.roles
    /\ <<u, r>> \notin Rows(d.user_roles)

(***************************************************************************)
(* C19.  For an existing user u that is not admin-protected and an         *)
(* existing role r not associated with u: add_role_to_user(u, r) returns   *)
(* True; a second add returns ALREADY_EXIST and leaves exactly one row;    *)
(* remove_role_in_user(u, r) then returns True; and the add that follows   *)
(* returns True again and gives the database the first add gave.  What     *)
(* add answers depends on whether the pair is associated now, not on what  *)
(* was done before.                                                        *)
(***************************************************************************)
AddRemoveAddAgain ==
    \A u \in UserNames, r \in RoleIds :
        Addable(db, u, r) =>
            LET add1 == add_role_to_user(db, u, r)
                add2 == add_role_to_user(add1.db, u, r)
                rm == remove_role_in_user(add2.db, u, r)
                add3 == add_role_to_user(rm.db, u, r)
            IN /\ add1.ret = Ret("True")
               /\ <<u, r>> \in Rows(add1.db.user_roles)
               /\ add2 = Out(add1.db, "ALREADY_EXIST")
               /\ add2.db.user_roles[<<u, r>>] = 1
               /\ rm = Out(db, "True")
               /\ add3 = add1

\* a pair was removed and can be added again
RemovedPairAddable ==
    /\ last.op = "remove_role_in_user" /\ last.ret.kind = "True"
    /\ \E u \in UserNames, r \in RoleIds \ admin_role_ids : Addable(db, u, r)

(***************************************************************************)
(* C20.  delete_role of an existing role R that is not admin-protected     *)
(* and is associated with policies returns True, removes R and every       *)
(* roles_policies row whose role is R, and leaves unchanged every policy,  *)
(* every other role and every roles_policies row of another role.          *)
(***************************************************************************)
DeleteRoleFrame ==
    \A r \in DOMAIN db.roles \ admin_role_ids :
        LET out == delete_role(db, r) IN
        /\ out.ret = Ret("True")
        /\ DOMAIN out.db.roles = DOMAIN db.roles \ {r}
        /\ \A i \in DOMAIN out.db.roles : out.db.roles[i] = db.roles[i]
        /\ RowsOf(out.db.roles_policies, 1, r) = {}
        /\ Rows(out.db.roles_policies) =
               Rows(db.roles_policies) \ RowsOf(db.roles_policies, 1, r)
        /\ out.db.policies = db.policies

\* a role that is not admin-protected has policies, and delete_role of it
\* succeeds
RoleWithPoliciesDeleted ==
    \E r \in DOMAIN db.roles \ admin_role_ids :
        /\ RowsOf(db.roles_policies, 1, r) # {}
        /\ delete_role(db, r).ret = Ret("True")
        /\ db.policies = delete_role(db, r).db.policies

(***************************************************************************)
(* C21.  delete_role of id 1 or 2 and delete_policy of id 1 return         *)
(* ADMIN_RESOURCES and leave the five tables as they were, whether the     *)
(* row exists or not.  The seeded rows are never deleted, so the database  *)
(* in which they do not exist is the one before the seeding, EmptyDb.      *)
(***************************************************************************)
DeleteOfReservedRefused ==
    \A d \in {db, EmptyDb} :
        /\ \A r \in admin_role_ids : delete_role(d, r) = Out(d, "ADMIN_RESOURCES")
        /\ \A p \in admin_policy_ids : delete_policy(d, p) = Out(d, "ADMIN_RESOURCES")

\* delete_role or delete_policy has just refused a reserved id while the
\* reserved rows have associations that a deletion would have removed
ReservedDeleteRefused ==
    /\ last.op \in {"delete_role", "delete_policy"}
    /\ last.ret.kind = "ADMIN_RESOURCES"
    /\ \A r \in admin_role_ids : RowsOf(db.roles_policies, 1, r) # {}

\* the names and the rules add_role is tried with: names stored and not,
\* mappings stored and not, and no rule
AddRoleNames == RoleNames \cup {"wazuh-app", "r2"}
AddRoleRules == {RuleA, RuleB, SeedRuleWazuh, PyNone}

RoleNamed(d, name) == \E id \in DOMAIN d.roles : d.roles[id].name = name
RuleStored(d, text) == \E id \in DOMAIN d.roles : d.roles[id].rule = text

(***************************************************************************)
(* C22.  add_role with a rule that is a mapping: when no role has the      *)
(* name and no role has the rule, it returns True and stores the role      *)
(* under a new id, the other roles unchanged; when a role has the name it  *)
(* returns ALREADY_EXIST and the database, the id and the rule of that     *)
(* role included, is as it was.  The same refusal holds when no rule is    *)
(* given.                                                                  *)
(***************************************************************************)
AddRoleByName ==
    \A n \in AddRoleNames, rule \in AddRoleRules :
        LET out == add_role(db, n, rule) IN
        /\ RoleNamed(db, n) => out = Out(db, "ALREADY_EXIST")
        /\ (/\ ~RoleNamed(db, n)
            /\ rule.t = "dict"
            /\ ~RuleStored(db, json_dumps(rule)))
           => /\ out.ret = Ret("True")
              /\ \E id \in DOMAIN out.db.roles \ DOMAIN db.roles :
                    /\ DOMAIN out.db.roles = DOMAIN db.roles \cup {id}
                    /\ out.db.roles[id].name = n
                    /\ json_loads(out.db.roles[id].rule) = rule
              /\ \A id \in DOMAIN db.roles : out.db.roles[id] = db.roles[id]
              /\ \A t \in DOMAIN db \ {"roles"} : out.db[t] = db[t]

\* add_role has just been refused for a name of a seeded role, the only
\* roles there are
SeededNameRefused ==
    /\ last.op = "add_role" /\ last.ret.kind = "ALREADY_EXIST"
    /\ DOMAIN db.roles = admin_role_ids

PolicyNamed(d, name) == \E id \in DOMAIN d.policies : d.policies[id].name = name

(***************************************************************************)
(* C23.  update_role and update_policy return ROLE_NOT_EXIST or            *)
(* POLICY_NOT_EXIST for an id no row has, and ADMIN_RESOURCES for an       *)
(* admin-protected id that exists.  For another id, when the name given    *)
(* is the name of some role or policy, they return ALREADY_EXIST and       *)
(* change no row, whether no rule or body is given or a new one, a         *)
(* mapping, is given in the same call.                                     *)
(***************************************************************************)
UpdateRefusals ==
    /\ \A id \in RoleIds, n \in NewRoleNames, r \in NewRuleArgs :
          LET out == update_role(db, id, n, r) IN
          /\ id \notin DOMAIN db.roles => out = Out(db, "ROLE_NOT_EXIST")
          /\ id \in DOMAIN db.roles \cap admin_role_ids
                => out = Out(db, "ADMIN_RESOURCES")
          /\ (/\ id \in DOMAIN db.roles \ admin_role_ids
              /\ r.t \in {"none", "dict"}
              /\ n.given /\ RoleNamed(db, n.s))
             => out = Out(db, "ALREADY_EXIST")
    /\ \A id \in PolicyIds, n \in NewPolicyNames, p \in NewPolicyArgs :
          LET out == update_policy(db, id, n, p) IN
          /\ id \notin DOMAIN db.policies => out = Out(db, "POLICY_NOT_EXIST")
          /\ id \in DOMAIN db.policies \cap admin_policy_ids
                => out = Out(db, "ADMIN_RESOURCES")
          /\ (/\ id \in DOMAIN db.policies \ admin_policy_ids
              /\ p.t \in {"none", "dict"}
              /\ n.given /\ PolicyNamed(db, n.s))
             => out = Out(db, "ALREADY_EXIST")

\* an update has just been refused because of the name it gave
RenameToUsedNameRefused ==
    /\ last.op \in {"update_role", "update_policy"}
    /\ last.ret.kind = "ALREADY_EXIST"

\* row id of table t2 holds the name and the text it is said to, and the
\* other rows of t2 are those of t1
RowUpdated(t1, t2, id, name, column, text) ==
    /\ DOMAIN t2 = DOMAIN t1
    /\ t2[id].name = name
    /\ t2[id][column] = text
    /\ \A other \in DOMAIN t1 \ {id} : t2[other] = t1[other]

(***************************************************************************)
(* C24.  Whenever update_role or update_policy returns True, each field    *)
(* that was given, the name or the rule / body, holds in the target row    *)
(* the value that was given, each field that was not given is unchanged,   *)
(* and no other row is changed.                                            *)
(* update_policy does not do this for a body without one of the keys       *)
(* actions, resources, effect: line 712 skips the assignment and the call  *)
(* still commits and returns True.                                         *)
(***************************************************************************)
UpdateSetsGivenFields ==
    /\ \A id \in RoleIds, n \in NewRoleNames, r \in NewRuleArgs :
          LET out == update_role(db, id, n, r) IN
          out.ret = Ret("True") =>
              /\ RowUpdated(db.roles, out.db.roles, id,
                            IF n.given THEN n.s ELSE db.roles[id].name, "rule",
                            IF r.t # "none" THEN json_dumps(r) ELSE db.roles[id].rule)
              /\ \A t \in DOMAIN db \ {"roles"} : out.db[t] = db[t]
    /\ \A id \in PolicyIds, n \in NewPolicyNames, p \in PolicyBodies :
          LET out == update_policy(db, id, n, p) IN
          out.ret = Ret("True") =>
              /\ RowUpdated(db.policies, out.db.policies, id,
                            IF n.given THEN n.s ELSE db.policies[id].name, "policy",
                            IF p.t # "none" THEN json_dumps(p)
                            ELSE db.policies[id].policy)
              /\ \A t \in DOMAIN db \ {"policies"} : out.db[t] = db[t]

\* a policy exists for which update_policy with a body that has no effect
\* key returns True and leaves the stored body as it was
UpdateWithPartialBodyIgnored ==
    \E id \in DOMAIN db.policies \ admin_policy_ids :
        update_policy(db, id, None, PolNoEffect) = Out(db, "True")

(***************************************************************************)
(* C25.  delete_user of an admin username returns ADMIN_RESOURCES and      *)
(* changes nothing.  delete_user of an existing user that is not admin     *)
(* returns True; the row of the user and every user_roles row of the user  *)
(* are then gone, and the other users, the roles, the policies and the     *)
(* associations of other users are as they were.  delete_user of a user    *)
(* that does not exist, such as a second delete_user of the same name,     *)
(* returns False and changes nothing.                                      *)
(***************************************************************************)
DeleteUserOutcome ==
    \A u \in UserNames :
        LET out == delete_user(db, u) IN
        IF u \in admin_usernames THEN out = Out(db, "ADMIN_RESOURCES")
        ELSE IF u \notin DOMAIN db.users THEN out = Out(db, "False")
        ELSE /\ out.ret = Ret("True")
             /\ DOMAIN out.db.users = DOMAIN db.users \ {u}
             /\ \A v \in DOMAIN out.db.users : out.db.users[v] = db.users[v]
             /\ RowsOf(out.db.user_roles, 1, u) = {}
             /\ Rows(out.db.user_roles) = Rows(db.user_roles) \ RowsOf(db.user_roles, 1, u)
             /\ \A t \in {"roles", "policies", "roles_policies"} : out.db[t] = db[t]
             /\ delete_user(out.db, u) = Out(out.db, "False")

\* a user that is not admin has roles and delete_user of it succeeds
UserWithRolesDeletable ==
    \E u \in DOMAIN db.users \ admin_usernames :
        /\ RowsOf(db.user_roles, 1, u) # {}
        /\ delete_user(db, u).ret = Ret("True")

(***************************************************************************)
(* C26.  After any sequence of add_user, update_user and delete_user,      *)
(* check_user(u, p) returns True exactly when u exists now and p is the    *)
(* password given to the latest add_user or update_user of u that          *)
(* returned True, and False otherwise: for a user that was never added or  *)
(* was deleted, and for the password of an add_user that was refused.      *)
(***************************************************************************)
CheckUserAcceptsLatest ==
    \A u \in AuthUsers, p \in AuthPasswords :
        check_user(db, u, p) =
            Out(db, IF u \in DOMAIN db.users /\ call[u] = p THEN "True" ELSE "False")

\* an add_user of an existing name has just been refused, after the
\* password of an existing user was changed and a user was deleted
DuplicateAddAfterUpdate ==
    /\ last.op = "add_user" /\ last.ret.kind = "False"
    /\ \E u \in DOMAIN db.users \cap AuthUsers : call[u] = "pw2"
    /\ \E u \in AuthUsers \ DOMAIN db.users : call[u] # ""

\* the elements of a sequence
Range(seq) == {seq[i] : i \in 1..Len(seq)}

\* ret is a list that holds each id of the set ids once
ListsExactly(ret, ids) ==
    ret.kind = "list" /\ Range(ret.ids) = ids /\ Len(ret.ids) = Cardinality(ids)

\* table t2 holds the rows of t1 whose id is in the set kept, unchanged
KeptOnly(t1, t2, kept) ==
    /\ DOMAIN t2 = DOMAIN t1 \cap kept
    /\ \A id \in DOMAIN t2 : t2[id] = t1[id]

(***************************************************************************)
(* C27.  delete_all_roles returns the ids of the roles that existed and    *)
(* are not admin-protected, each once; afterwards the roles table holds    *)
(* the admin-protected roles, unchanged, and nothing else, and no row of   *)
(* an association table refers to an id that was deleted.  The same for    *)
(* delete_all_policies.                                                    *)
(* delete_all_roles deletes the roles_policies rows of each role           *)
(* (orm.py:491-493) and no user_roles row.                                 *)
(***************************************************************************)
DeleteAllReturnsAndClears ==
    /\ LET out == delete_all_roles(db)
           deleted == DOMAIN db.roles \ admin_role_ids
       IN /\ ListsExactly(out.ret, deleted)
          /\ KeptOnly(db.roles, out.db.roles, admin_role_ids)
          /\ \A row \in Rows(out.db.roles_policies) : row[1] \notin deleted
          /\ \A row \in Rows(out.db.user_roles) : row[2] \notin deleted
    /\ LET out == delete_all_policies(db)
           deleted == DOMAIN db.policies \ admin_policy_ids
       IN /\ ListsExactly(out.ret, deleted)
          /\ KeptOnly(db.policies, out.db.policies, admin_policy_ids)
          /\ \A row \in Rows(out.db.roles_policies) : row[2] \notin deleted

\* delete_all_roles has just returned the id of a role that a user_roles row
\* still refers to
DeleteAllRolesLeftUserRow ==
    /\ last.op = "delete_all_roles" /\ last.ret.kind = "list"
    /\ \E row \in Rows(db.user_roles) : row[2] \in Range(last.ret.ids)

\* dict == dict in Python: the same keys with the same values, whatever the
\* order the keys were inserted in
PyDictEq(a, b) ==
    /\ a.t = "dict" /\ b.t = "dict"
    /\ Keys(a) = Keys(b)
    /\ \A k \in Keys(a) : Get(a, k) = Get(b, k)

\* well-formed bodies, two of them the same mapping in two key orders
EqualBodies == {SeedPolicy, PolA, PolAReordered}

(***************************************************************************)
(* C28.  add_policy with a well-formed body that is equal, as a mapping,   *)
(* to the body of a stored policy, in whatever order its keys were         *)
(* written, returns ALREADY_EXIST and stores no second policy.             *)
(* The constraint of the store is on the text json.dumps wrote             *)
(* (orm.py:217, 612), and that text follows the order of the keys: the     *)
(* same mapping with its keys in another order is another text.            *)
(***************************************************************************)
EqualBodyRefused ==
    \A n \in PolicyNames \cup {"p2"}, p \in EqualBodies :
        (\E id \in DOMAIN db.policies : PyDictEq(json_loads(db.policies[id].policy), p))
            => add_policy(db, n, p) = Out(db, "ALREADY_EXIST")

\* a policy holds a body, and add_policy of the same mapping with its keys
\* in another order, under a new name, returns True
ReorderedBodyStoredTwice ==
    /\ \E id \in DOMAIN db.policies : db.policies[id].policy = json_dumps(PolA)
    /\ ~PolicyNamed(db, "p2")
    /\ add_policy(db, "p2", PolAReordered).ret = Ret("True")

\* the keys the call that gave table t2 from table t1 created
Created(t1, t2) == DOMAIN t2 \ DOMAIN t1

(***************************************************************************)
(* C29.  After the seeding, whatever was done since, no add_role that      *)
(* returns True creates a role of id 1 or 2, no add_policy that returns    *)
(* True creates a policy of id 1, and no add_user that returns True        *)
(* creates a user named wazuh or wazuh-app.                                *)
(***************************************************************************)
ReservedIdsNeverIssued ==
    /\ \A n \in AddRoleNames, r \in AddRoleRules :
          LET out == add_role(db, n, r) IN
          out.ret = Ret("True") => Created(db.roles, out.db.roles) \cap admin_role_ids = {}
    /\ \A n \in PolicyNames \cup {"p2"}, p \in PolicyArgs \cup EqualBodies :
          LET out == add_policy(db, n, p) IN
          out.ret = Ret("True")
              => Created(db.policies, out.db.policies) \cap admin_policy_ids = {}
    /\ \A u \in UserNames, p \in Passwords :
          LET out == add_user(db, u, p, FALSE) IN
          out.ret = Ret("True") => Created(db.users, out.db.users) \cap admin_usernames = {}

\* add_policy has just created a policy, under id 2, in a database from
\* which a role was deleted earlier: a user_roles row still names it
PolicyCreatedAgain ==
    /\ last.op = "add_policy" /\ last.ret.kind = "True"
    /\ Created(Seed.policies, db.policies) = {2}
    /\ \E row \in Rows(db.user_roles) : row[2] \notin DOMAIN db.roles

RoleUnassociated(d, id) ==
    RowsOf(d.user_roles, 2, id) = {} /\ RowsOf(d.roles_policies, 1, id) = {}
PolicyUnassociated(d, id) == RowsOf(d.roles_policies, 2, id) = {}

(***************************************************************************)
(* C31.  Right after an add_role or an add_policy that returned True, the  *)
(* new role or policy has no association: no user_roles row and no         *)
(* roles_policies row refers to the id the store gave it, also when the    *)
(* role or policy of the highest id was deleted before and the store       *)
(* gives that id again.                                                    *)
(* The store gives the highest id plus one (orm.py:160), delete_role       *)
(* leaves the user_roles rows of the role it deletes (443-452), and the    *)
(* next role gets the id those rows name.                                  *)
(***************************************************************************)
NewEntityUnassociated ==
    /\ \A n \in AddRoleNames, r \in AddRoleRules :
          LET out == add_role(db, n, r) IN
          out.ret = Ret("True")
              => \A id \in Created(db.roles, out.db.roles) : RoleUnassociated(out.db, id)
    /\ \A n \in PolicyNames \cup {"p2"}, p \in PolicyArgs \cup EqualBodies :
          LET out == add_policy(db, n, p) IN
          out.ret = Ret("True")
              => \A id \in Created(db.policies, out.db.policies) :
                     PolicyUnassociated(out.db, id)

\* add_role has just created a role, and a user already has it
NewRoleAlreadyGranted ==
    /\ last.op = "add_role" /\ last.ret.kind = "True"
    /\ \E id \in DOMAIN db.roles \ admin_role_ids :
          /\ \A other \in DOMAIN db.roles : other <= id
          /\ RowsOf(db.user_roles, 2, id) # {}

(***************************************************************************)
(* C32: whenever a call on the manager returns False or a SecurityError    *)
(* member, the five committed tables are what they were before the call    *)
(* and the manager's session holds no uncommitted change that a later call *)
(* on the same manager could commit.  Stated on the steps of SpecSession   *)
(* that end a call of the AuthenticationManager.                           *)
(***************************************************************************)
FailedCallLeavesNothing ==
    [][Failure(last'.ret) /\ last' # last => db' = db /\ call'.pending = {}]_vars

\* delete_user has just returned False for a user that is not stored, and the
\* session still holds the deletion of a user_roles row that is committed
FailedDeleteLeftPendingRows ==
    /\ last.op = "delete_user" /\ last.ret.kind = "False"
    /\ call.open
    /\ \E row \in call.pending :
          /\ row[1] \notin DOMAIN db.users
          /\ BagIn(row, db.user_roles)

(***************************************************************************)
(* C33: update_role returns ROLE_NOT_EXIST, and update_policy returns      *)
(* POLICY_NOT_EXIST, only when no row with the given id is stored: a       *)
(* uniqueness violation that the commit raises for a stored id is answered *)
(* with ALREADY_EXIST.                                                     *)
(***************************************************************************)
NotExistOnlyForMissingId ==
    /\ \A id \in RoleIds, n \in NewRoleNames, r \in NewRuleArgs :
          LET out == update_role(db, id, n, r) IN
          /\ out.ret = Ret("ROLE_NOT_EXIST") => id \notin DOMAIN db.roles
          /\ (/\ id \in DOMAIN db.roles \ admin_role_ids
              /\ r.t = "dict" /\ json_validator(r)
              /\ ~(n.given /\ RoleNamed(db, n.s))
              /\ \E other \in DOMAIN db.roles \ {id} :
                    db.roles[other].rule = json_dumps(r))
                => out.ret = Ret("ALREADY_EXIST")
    /\ \A id \in PolicyIds, n \in NewPolicyNames, p \in NewPolicyArgs :
          update_policy(db, id, n, p).ret = Ret("POLICY_NOT_EXIST")
              => id \notin DOMAIN db.policies

\* update_role has just answered ROLE_NOT_EXIST although every id it can have
\* been given is stored
UpdateOfStoredRoleSaidNotExist ==
    /\ last.op = "update_role" /\ last.ret.kind = "ROLE_NOT_EXIST"
    /\ RoleIds \subseteq DOMAIN db.roles

(***************************************************************************)
(* C34: an association add(a, b) or remove(a, b) that returns True changes *)
(* exactly one association row: users, roles, policies and the other       *)
(* association table are unchanged, every row of the same table other than *)
(* <<a, b>> is unchanged, and <<a, b>> itself goes from absent to stored   *)
(* once (add) or from stored once to absent (remove).                      *)
(***************************************************************************)
\* table t2 is table t1 with the one row added (present = TRUE) or removed
OneRowChanged(t1, t2, row, present) ==
    /\ \A other \in (DOMAIN t1 \cup DOMAIN t2) \ {row} :
          other \in DOMAIN t1 /\ other \in DOMAIN t2 /\ t1[other] = t2[other]
    /\ IF present
       THEN ~BagIn(row, t1) /\ BagIn(row, t2) /\ t2[row] = 1
       ELSE BagIn(row, t1) /\ t1[row] = 1 /\ ~BagIn(row, t2)

OnlyUserRolesRow(d1, out, row, present) ==
    out.ret = Ret("True")
        => /\ out.db.users = d1.users
           /\ out.db.roles = d1.roles
           /\ out.db.policies = d1.policies
           /\ out.db.roles_policies = d1.roles_policies
           /\ OneRowChanged(d1.user_roles, out.db.user_roles, row, present)

OnlyRolesPoliciesRow(d1, out, row, present) ==
    out.ret = Ret("True")
        => /\ out.db.users = d1.users
           /\ out.db.roles = d1.roles
           /\ out.db.policies = d1.policies
           /\ out.db.user_roles = d1.user_roles
           /\ OneRowChanged(d1.roles_policies, out.db.roles_policies, row, present)

AssociationFrame ==
    /\ \A u \in UserNames, r \in RoleIds :
          /\ OnlyUserRolesRow(db, add_role_to_user(db, u, r), <<u, r>>, TRUE)
          /\ OnlyUserRolesRow(db, remove_role_in_user(db, u, r), <<u, r>>, FALSE)
    /\ \A r \in RoleIds, p \in PolicyIds :
          /\ OnlyRolesPoliciesRow(db, add_policy_to_role(db, r, p), <<r, p>>, TRUE)
          /\ OnlyRolesPoliciesRow(db, remove_policy_in_role(db, r, p), <<r, p>>, FALSE)

\* add_policy_to_role has just stored a second policy for a role, next to a
\* user_roles row of a user that is not an administrator
SecondPolicyAddedToRole ==
    /\ last.op = "add_policy_to_role" /\ last.ret.kind = "True"
    /\ \E r \in DOMAIN db.roles \ admin_role_ids :
          /\ BagIn(<<r, 1>>, db.roles_policies)
          /\ BagIn(<<r, 2>>, db.roles_policies)
    /\ \E row \in Rows(db.user_roles) : row[1] \notin admin_usernames

====
